---- MODULE Spec2Model ----
(***************************************************************************)
(* Session lifecycle, request dispatch and streaming-event normalisation   *)
(* of mcp-langchain (mcp_web_app).                                         *)
(*                                                                         *)
(* Four specifications share this module, one per subsystem:               *)
(*   SpecStream  the streaming handlers (stream_agent_response of          *)
(*               services/agent/streaming.py and                           *)
(*               LangchainAgentService.astream_ask_agent_events)           *)
(*   SpecDisp    the blocking dispatcher (RequestDispatcher of             *)
(*               services/agent/dispatcher.py and the dispatcher methods   *)
(*               of LangchainAgentService)                                 *)
(*   SpecSess    the session registry and reconciler                       *)
(*               (_get_or_create_session_components, both                  *)
(*               needs_session_recreation implementations)                 *)
(*   SpecConc    streaming calls of several tasks on the one event loop    *)
(*               (astream_ask_agent_events, called concurrently)           *)
(* Each specification leaves the variables of the others unchanged.        *)
(***************************************************************************)
EXTENDS Integers, Sequences, FiniteSets, TLC

\* ------------------------------------------------------------------------
\* Values shared by the parts
\* ------------------------------------------------------------------------

\* Python's None for the optional string arguments.
None == "None"

\* Text is a sequence over {1, 2}; NoneT stands for a None where a text may
\* be (final_response_content, MCPEventCollector.final_output).
NoneT == << 0 >>

\* Bound: the number of raw notifications one executor run produces.
MaxNotifs == 3

\* The text fragments an executor can produce ("" included).
Frags == { << >>, << 1 >>, << 2 >> }

\* EventType of utils/custom_event_handler.py (the values used on the sink).
TOKEN == "token"
ERROR == "error"
END == "end"
CHAIN_END == "on_chain_end"
TOOL_START == "on_tool_start"
TOOL_END == "on_tool_end"
MESSAGE == "message"
CHAIN_START == "on_chain_start"

\* The two terminal kinds of the event taxonomy.
TerminalKinds == { CHAIN_END, END }

VARIABLES
    \* ---- streaming (SpecStream)
    impl,       \* "pkg": stream_agent_response, "svc": astream_ask_agent_events
    execKind,   \* the session's executor: "none", "simple", "agent"
    spc,        \* position of the handler
    sink,       \* the events passed to output_stream_fn, in call order
    accumulated_content,
    final_response_content,
    final_output,                   \* MCPEventCollector.final_output
    stream_terminated_successfully, \* flag of stream_agent_response
    notifs,     \* raw notifications produced so far by this run
    raisedAt,   \* Len(sink) when an Exception reached the handler, else -1
    cancelledAt,\* Len(sink) when a CancelledError reached the handler, else -1
    primaryFired, \* an outermost on_chain_end set final_response_content
    collectedFrom, \* where final_output comes from: "none", "outer" or
                   \* "nested" (a chain end), "finish" (the agent's finish)
    usedCollector, \* the collector's value replaced final_response_content
    genIdx,     \* per event of the sink: the notification it was made for
                \* (0: made by the handler itself)
    event_queue,\* the per-request asyncio.Queue of utils/chat.py
    ws_sent,    \* the events the chat handler has taken from the queue and
                \* sent on the websocket
    ws_open     \* the chat handler is still in its forwarding loop

streamVars == << impl, execKind, spc, sink, accumulated_content,
                 final_response_content, final_output,
                 stream_terminated_successfully, notifs, raisedAt,
                 cancelledAt, primaryFired, collectedFrom, usedCollector,
                 genIdx, event_queue, ws_sent, ws_open >>

\* The variables of the forwarding loop of the chat handler.
consumerVars == << ws_sent, ws_open >>

\* The variables that say where the final content came from.
collectorVars == << collectedFrom, usedCollector >>

VARIABLES
    \* ---- dispatcher (SpecDisp)
    dvariant,          \* "pkg": RequestDispatcher, "svc": the service methods
    is_running,        \* RequestDispatcher.is_running
    dispatcher_thread, \* "none", "waiting" (in request_queue.get()),
                       \* "processing", "blocked", "exited"
    request_queue,     \* sequence of [session_id, question, future]
    futures,           \* future id -> "unused", "pending", "exception"
    resolutions,       \* future id -> number of set_result/set_exception
    nextFuture,        \* id of the next Future() submit_request creates
    current,           \* the item the thread has dequeued and is handling
    dropped,           \* futures dequeued and abandoned by a "break"
    stopPc,            \* "idle", or "joining": stop() waits in join(timeout=5)
    stopLog,           \* what the last stop() logged
    pendingAtStop,     \* the futures pending when the last stop() was called
    stopCalled,        \* stop() has put its sentinel since the last start()
    acceptedAfterStop, \* submit_request enqueued a request while stopCalled
    chat_messages_for_log, \* what the blocking path has appended to the
                       \* sessions' message lists: << session id, role,
                       \* content >>, in the order of the appends
    lastCall           \* the call of start() or stop() that returned last:
                       \* "none", "start", "stop"

dispVars == << dvariant, is_running, dispatcher_thread, request_queue,
               futures, resolutions, nextFuture, current, dropped, stopPc,
               stopLog, pendingAtStop, stopCalled, acceptedAfterStop,
               chat_messages_for_log, lastCall >>

VARIABLES
    \* ---- session registry and reconciler (SpecSess)
    sessions,              \* LangchainAgentService.sessions
    llm_configs,           \* the LLM config ids of the ConfigManager
    globally_active_tools, \* LangchainAgentService.globally_active_tools
    nextHistory,           \* identity of the next ChatMessageHistory()
    call,                  \* the _get_or_create_session_components call in
                           \* progress or just returned: its arguments, its
                           \* locals, its position, and what it has done
    degraded_by            \* per session: the request whose LLM could not be
                           \* obtained, until a rebuild of the session goes
                           \* ahead with an LLM

sessVars == << sessions, llm_configs, globally_active_tools, nextHistory,
               call, degraded_by >>

VARIABLES
    \* ---- concurrent streaming calls (SpecConc)
    stream_call,  \* per task: the astream_ask_agent_events call it runs
                  \* (position, session_id, accumulated_content, number
                  \* of calls made)
    call_sink,    \* per task: what the output_stream_fn of its call got
    memory_saver, \* per session id: the turns in its history
    installed,    \* per session id: the record holds an executor
    mcp_clients,  \* per session id: the MultiServerMCPClient object in its
                  \* record (NoClient: None)
    clients_made  \* the MultiServerMCPClient objects constructed so far

clientVars == << mcp_clients, clients_made >>

concVars == << stream_call, call_sink, memory_saver, installed, clientVars >>

VARIABLES
    \* ---- tool resolution and executor factory (SpecBuild)
    build         \* one pass through the tool resolver and the executor
                  \* factory: the request, the effective filter, the client,
                  \* agent_tools and the executor made

buildVars == << build >>

VARIABLES
    \* ---- websocket_chat_stream_handler around one streaming call
    \* (SpecHandler)
    handler_pc,   \* "try": in its try block (the forwarding loop while
                  \* ws_open, then the final message); "waiting": in the
                  \* finally block, agent_task.cancel() called and
                  \* wait_for(agent_task, 5.0) awaited; "returned"
    ws_connected, \* the client's end of the websocket is still there
    final_message \* the data of the "final" message sent after the loop,
                  \* << >> as long as none was sent

handlerVars == << handler_pc, ws_connected, final_message >>

VARIABLES
    \* ---- tool clients over rebuilds and shutdown (SpecClose)
    client_of,  \* per session id: the client object in its record, 0: None
    clients     \* the MultiServerMCPClient objects constructed so far, in
                \* order: whether __aenter__ succeeded, the calls of
                \* __aexit__ made and those that returned, and the two
                \* marks the service sets on the object

closeVars == << client_of, clients >>

VARIABLES
    \* ---- LLM configurations of the ConfigManager (SpecCfg)
    stored_llm_configs, \* ConfigManager._llm_configs: the dict in insertion
                        \* order, each entry with its is_default flag
    default_llm_id      \* ConfigManager._default_llm_id

cfgVars == << stored_llm_configs, default_llm_id >>

\* What each part leaves alone.
notStream ==
    << dispVars, sessVars, concVars, buildVars, handlerVars,
       closeVars, cfgVars >>

notDisp ==
    << streamVars, sessVars, concVars, buildVars, handlerVars,
       closeVars, cfgVars >>

notSess ==
    << streamVars, dispVars, concVars, buildVars, handlerVars,
       closeVars, cfgVars >>

notConc ==
    << streamVars, dispVars, sessVars, buildVars, handlerVars,
       closeVars, cfgVars >>

notBuild ==
    << streamVars, dispVars, sessVars, concVars, handlerVars,
       closeVars, cfgVars >>

notHandler ==
    << dispVars, sessVars, concVars, buildVars,
       closeVars, cfgVars >>

notClose ==
    << streamVars, dispVars, sessVars, concVars, buildVars, handlerVars,
       cfgVars >>

notCfg ==
    << streamVars, dispVars, sessVars, concVars, buildVars, handlerVars,
       closeVars >>

vars ==
    << streamVars, dispVars, sessVars, concVars, buildVars, handlerVars,
       closeVars, cfgVars >>

\* ------------------------------------------------------------------------
\* Streaming: helpers
\* ------------------------------------------------------------------------

Ev(k, d) == [ kind |-> k, data |-> d ]

\* output_stream_fn(kind, data): the sink records the call.
Emit(s, k, d) == Append(s, Ev(k, d))

\* Python truthiness of an optional text: None and "" are falsy.
Truthy(t) == t # NoneT /\ t # << >>

\* Positions of the terminal events in a sink.
TerminalIdx(s) == { i \in 1..Len(s) : s[i].kind \in TerminalKinds }

Kinds(s) == [ i \in 1..Len(s) |-> s[i].kind ]

\* s is a prefix of t.
IsPrefix(s, t) == Len(s) <= Len(t) /\ SubSeq(t, 1, Len(s)) = s

\* The callback handler registered for the request.
\*   svc: CustomAsyncIteratorCallbackHandler (utils/custom_event_handler.py)
\*   pkg: StreamingCallback. streaming.py imports it from a callbacks module
\*        that is not in the tree; the class of that name in
\*        langchain_agent_service.py (lines 65-80) is taken for it: "token"
\*        for a new token, "error" for an LLM error, nothing else.
\* Neither handler emits a terminal event.

\* on_llm_new_token: TOKEN for every token the model reports. fired says
\* whether the model invoked the callback for this fragment.
on_llm_new_token(s, fired, tok) ==
    IF fired THEN Emit(s, TOKEN, tok) ELSE s

\* on_llm_error / on_chain_error / on_tool_error: an "error" event, emitted
\* inside the executor before the exception reaches the handler.
on_chain_error(s, fired) ==
    IF fired THEN Emit(s, ERROR, << >>) ELSE s

\* on_chain_end of CustomAsyncIteratorCallbackHandler: logs, emits nothing.
on_chain_end(s) == s

\* on_tool_start / on_tool_end (svc handler only).
on_tool_start(s) ==
    IF impl = "svc" THEN Emit(s, TOOL_START, << >>) ELSE s

on_tool_end(s) ==
    IF impl = "svc" THEN Emit(s, TOOL_END, << >>) ELSE s

\* on_agent_finish (svc handler only): a "message" event with the output.
on_agent_finish(s, out) ==
    IF impl = "svc" THEN Emit(s, MESSAGE, out) ELSE s

\* on_chain_start (svc handler only).
on_chain_start(s) ==
    IF impl = "svc" THEN Emit(s, CHAIN_START, << >>) ELSE s

\* ------------------------------------------------------------------------
\* Streaming: what the handlers do with the sink
\* ------------------------------------------------------------------------

\* "if not agent_executor": ERROR then END
\* (streaming.py 175-180, langchain_agent_service.py 842-847).
NoExecutorEvents(s) == Emit(Emit(s, ERROR, << >>), END, << >>)

\* One fragment of the delta style: chunk_content is sent as TOKEN and
\* accumulated only when it is neither None nor "".
ChunkEvents(s, c) == IF c # << >> THEN Emit(s, TOKEN, c) ELSE s

ChunkAccumulate(acc, c) == IF c # << >> THEN acc \o c ELSE acc

\* except around the delta loop. pkg (handle_simple_chain_stream 76-82):
\* ERROR, return None. svc (884-890): ERROR, END, return.
SimpleStreamError(s) ==
    IF impl = "pkg" THEN Emit(s, ERROR, << >>)
                    ELSE Emit(Emit(s, ERROR, << >>), END, << >>)

\* An outer except that reports the error and stops there.
CriticalError_NoEnd(s) == Emit(s, ERROR, << >>)

\* The outer except: ERROR then END
\* (streaming.py 226-237, langchain_agent_service.py 956-963).
CriticalError(s) == Emit(Emit(s, ERROR, << >>), END, << >>)

\* on_chain_end in the trace loop: the content is captured only from the
\* event of RunnableWithMessageHistory or one without parent_ids, and only
\* when the output carries a content.
CaptureChainEnd(frc, outer, out) ==
    IF outer /\ out # NoneT THEN out ELSE frc

\* MCPEventCollector.on_chain_end / on_agent_finish: the last string output
\* seen is kept.
CollectOutput(fo, out) == IF out # NoneT THEN out ELSE fo

\* After the trace loop: "if not final_response_content" use the collector.
CollectorFallback(frc, fo) ==
    IF ~Truthy(frc) /\ Truthy(fo) THEN fo ELSE frc

\* A final step that sends END after CHAIN_END as well.
SendFinalEvent_Both(s, frc) ==
    IF frc # NoneT THEN Emit(Emit(s, CHAIN_END, frc), END, << >>)
                   ELSE Emit(s, END, << >>)

\* "Send final event": CHAIN_END with str(final_response_content) when it is
\* not None, else END.
SendFinalEvent(s, frc) ==
    IF frc # NoneT THEN Emit(s, CHAIN_END, frc) ELSE Emit(s, END, << >>)

\* A finally block that emits nothing.
FinallyFallback_silent(s, flag) == s

\* finally. pkg (242-248): END when no terminal event was marked as sent.
\* svc (966-967): logs only.
FinallyFallback(s, flag) ==
    IF impl = "pkg" /\ ~flag THEN Emit(s, END, << >>) ELSE s

\* MCPEventCollector.on_chain_end is invoked for every chain end, nested or
\* not: the source of final_output after one with collectable output cout.
CollectedFrom(cf, outer, cout) ==
    IF cout = NoneT THEN cf ELSE IF outer THEN "outer" ELSE "nested"

\* The test around the collector: it is consulted when
\* final_response_content is falsy, and used when its own value is truthy.
UsesCollector(frc, fo) == ~Truthy(frc) /\ Truthy(fo)

\* websocket_event_pusher is a coroutine function. stream_agent_response
\* and StreamingCallback await the call; astream_ask_agent_events and
\* CustomAsyncIteratorCallbackHandler call it without await, which creates
\* a coroutine object that never runs.
Awaited == impl = "pkg"

\* websocket_event_pusher, once it runs: put_nowait((event_type, data)).
websocket_event_pusher(q, evs) == q \o evs

\* The queue after the calls that extended the sink from s to s2.
Delivered(q, s, s2) ==
    IF Awaited THEN websocket_event_pusher(q, SubSeq(s2, Len(s) + 1, Len(s2)))
               ELSE q

\* The calls of output_stream_fn one step makes: s2 is the sink after them,
\* g the notification they were made for.
Pass(s2, g) ==
    /\ sink' = s2
    /\ genIdx' = genIdx \o [ i \in 1..(Len(s2) - Len(sink)) |-> g ]
    /\ event_queue' = Delivered(event_queue, sink, s2)

\* What the forwarding loop sends for an event: on_chain_end and message
\* only with a non-empty content, everything else always.
Forwards(ev) ==
    ev.kind \in { CHAIN_END, MESSAGE } => Truthy(ev.data)

\* The kinds the clients render as generation progress.
ProgressKinds == { TOKEN, TOOL_START, TOOL_END }

Progress(s) == SelectSeq(s, LAMBDA ev : ev.kind \in ProgressKinds)


\* ------------------------------------------------------------------------
\* Streaming: actions
\* ------------------------------------------------------------------------

StreamInit ==
    /\ impl \in { "pkg", "svc" }
    /\ execKind = "none"
    /\ spc = "idle"
    /\ sink = << >>
    /\ accumulated_content = << >>
    /\ final_response_content = NoneT
    /\ final_output = NoneT
    /\ stream_terminated_successfully = FALSE
    /\ notifs = 0
    /\ raisedAt = -1
    /\ cancelledAt = -1
    /\ primaryFired = FALSE
    /\ collectedFrom = "none"
    /\ usedCollector = FALSE
    /\ genIdx = << >>
    /\ event_queue = << >>
    /\ ws_sent = << >>
    /\ ws_open = TRUE

\* A streaming call is made. ek is what the session record holds as
\* agent_executor / raw_agent_executor; "raise" is
\* _get_or_create_session_components raising inside astream_ask_agent_events
\* (stream_agent_response receives session_data as an argument).
BeginRequest(ek) ==
    /\ spc \in { "idle", "done" }
    /\ ek = "raise" => impl = "svc"
    /\ execKind' = ek
    /\ spc' = "entered"
    /\ sink' = << >>
    /\ accumulated_content' = << >>
    /\ final_response_content' = NoneT
    /\ final_output' = NoneT
    /\ stream_terminated_successfully' = FALSE
    /\ notifs' = 0
    /\ raisedAt' = -1
    /\ cancelledAt' = -1
    /\ primaryFired' = FALSE
    /\ collectedFrom' = "none"
    /\ usedCollector' = FALSE
    /\ genIdx' = << >>
    /\ event_queue' = << >>
    /\ ws_sent' = << >>
    /\ ws_open' = TRUE
    /\ UNCHANGED notStream
    /\ UNCHANGED impl

\* No executor in the session record.
NoExecutor ==
    /\ spc = "entered" /\ execKind = "none"
    /\ Pass(NoExecutorEvents(sink), 0)
    /\ stream_terminated_successfully' = TRUE
    /\ spc' = "finally"
    /\ UNCHANGED notStream
    /\ UNCHANGED consumerVars
    /\ UNCHANGED collectorVars
    /\ UNCHANGED << impl, execKind, accumulated_content,
                    final_response_content, final_output, notifs, raisedAt,
                    cancelledAt, primaryFired >>

\* svc: the reconcile step raised; the outer except converts it.
ComponentsRaise ==
    /\ spc = "entered" /\ execKind = "raise"
    /\ raisedAt' = Len(sink)
    /\ Pass(CriticalError(sink), 0)
    /\ spc' = "finally"
    /\ UNCHANGED notStream
    /\ UNCHANGED consumerVars
    /\ UNCHANGED collectorVars
    /\ UNCHANGED << impl, execKind, accumulated_content,
                    final_response_content, final_output,
                    stream_terminated_successfully, notifs, cancelledAt,
                    primaryFired >>

\* The handler picks the delta loop for a SimpleChainExecutor and the trace
\* loop for every other executor.
EnterLoop ==
    /\ spc = "entered" /\ execKind \in { "simple", "agent" }
    /\ spc' = execKind
    /\ UNCHANGED notStream
    /\ UNCHANGED consumerVars
    /\ UNCHANGED collectorVars
    /\ UNCHANGED << impl, execKind, sink, genIdx, event_queue,
                    accumulated_content,
                    final_response_content, final_output,
                    stream_terminated_successfully, notifs, raisedAt,
                    cancelledAt, primaryFired >>

\* Delta style: the executor yields one fragment; the model's callback may
\* have been invoked for it first.
SimpleChunk(c, fired) ==
    /\ spc = "simple" /\ notifs < MaxNotifs
    /\ Pass(ChunkEvents(on_llm_new_token(sink, fired, c), c), notifs + 1)
    /\ accumulated_content' = ChunkAccumulate(accumulated_content, c)
    /\ notifs' = notifs + 1
    /\ UNCHANGED notStream
    /\ UNCHANGED consumerVars
    /\ UNCHANGED collectorVars
    /\ UNCHANGED << impl, execKind, spc, final_response_content,
                    final_output, stream_terminated_successfully, raisedAt,
                    cancelledAt, primaryFired >>

\* Delta style: the executor's stream ends.
SimpleEnd ==
    /\ spc = "simple"
    /\ final_response_content' = accumulated_content
    /\ spc' = "final"
    /\ UNCHANGED notStream
    /\ UNCHANGED consumerVars
    /\ UNCHANGED collectorVars
    /\ UNCHANGED << impl, execKind, sink, genIdx, event_queue,
                    accumulated_content, final_output,
                    stream_terminated_successfully, notifs, raisedAt,
                    cancelledAt, primaryFired >>

\* Delta style: the executor raises an Exception.
SimpleRaise(fired) ==
    /\ spc = "simple"
    /\ raisedAt' = Len(on_chain_error(sink, fired))
    /\ Pass(SimpleStreamError(on_chain_error(sink, fired)), 0)
    /\ final_response_content' = NoneT
    /\ spc' = IF impl = "pkg" THEN "final" ELSE "finally"
    /\ UNCHANGED notStream
    /\ UNCHANGED consumerVars
    /\ UNCHANGED collectorVars
    /\ UNCHANGED << impl, execKind, accumulated_content, final_output,
                    stream_terminated_successfully, notifs, cancelledAt,
                    primaryFired >>

\* Trace style: a model token; only the callback handler turns it into TOKEN.
AgentToken(c) ==
    /\ spc = "agent" /\ notifs < MaxNotifs
    /\ Pass(on_llm_new_token(sink, TRUE, c), notifs + 1)
    /\ notifs' = notifs + 1
    /\ UNCHANGED notStream
    /\ UNCHANGED consumerVars
    /\ UNCHANGED collectorVars
    /\ UNCHANGED << impl, execKind, spc, accumulated_content,
                    final_response_content, final_output,
                    stream_terminated_successfully, raisedAt, cancelledAt,
                    primaryFired >>

\* Trace style: a tool starts / ends.
AgentTool(start) ==
    /\ spc = "agent" /\ notifs < MaxNotifs
    /\ Pass(IF start THEN on_tool_start(sink) ELSE on_tool_end(sink),
            notifs + 1)
    /\ notifs' = notifs + 1
    /\ UNCHANGED notStream
    /\ UNCHANGED consumerVars
    /\ UNCHANGED collectorVars
    /\ UNCHANGED << impl, execKind, spc, accumulated_content,
                    final_response_content, final_output,
                    stream_terminated_successfully, raisedAt, cancelledAt,
                    primaryFired >>

\* Trace style: a chain starts.
AgentChainStart ==
    /\ spc = "agent" /\ notifs < MaxNotifs
    /\ Pass(on_chain_start(sink), notifs + 1)
    /\ notifs' = notifs + 1
    /\ UNCHANGED notStream
    /\ UNCHANGED consumerVars
    /\ UNCHANGED collectorVars
    /\ UNCHANGED << impl, execKind, spc, accumulated_content,
                    final_response_content, final_output,
                    stream_terminated_successfully, raisedAt, cancelledAt,
                    primaryFired >>

\* Trace style: a chain ends, at the outermost level or nested. out is the
\* content the trace loop finds in the event's output ("content", then
\* "output", then the attribute), cout the string the collector finds in
\* the same outputs ("output", then "content", then "result", and only
\* when they are a dict); NoneT: it finds none.
AgentChainEnd(outer, out, cout) ==
    /\ spc = "agent" /\ notifs < MaxNotifs
    /\ Pass(on_chain_end(sink), notifs + 1)
    /\ final_output' = CollectOutput(final_output, cout)
    /\ collectedFrom' = CollectedFrom(collectedFrom, outer, cout)
    /\ final_response_content' =
           CaptureChainEnd(final_response_content, outer, out)
    /\ primaryFired' = (primaryFired \/ (outer /\ out # NoneT))
    /\ notifs' = notifs + 1
    /\ UNCHANGED notStream
    /\ UNCHANGED consumerVars
    /\ UNCHANGED usedCollector
    /\ UNCHANGED << impl, execKind, spc, accumulated_content,
                    stream_terminated_successfully, raisedAt, cancelledAt >>

\* Trace style: the agent finishes with return_values["output"] = out.
AgentFinish(out) ==
    /\ spc = "agent" /\ notifs < MaxNotifs
    /\ Pass(on_agent_finish(sink, out), notifs + 1)
    /\ final_output' = CollectOutput(final_output, out)
    /\ collectedFrom' = "finish"
    /\ notifs' = notifs + 1
    /\ UNCHANGED notStream
    /\ UNCHANGED consumerVars
    /\ UNCHANGED usedCollector
    /\ UNCHANGED << impl, execKind, spc, accumulated_content,
                    final_response_content,
                    stream_terminated_successfully, raisedAt, cancelledAt,
                    primaryFired >>

\* Trace style: the executor's event stream ends.
AgentEnd ==
    /\ spc = "agent"
    /\ final_response_content' =
           CollectorFallback(final_response_content, final_output)
    /\ usedCollector' = UsesCollector(final_response_content, final_output)
    /\ spc' = "final"
    /\ UNCHANGED notStream
    /\ UNCHANGED consumerVars
    /\ UNCHANGED collectedFrom
    /\ UNCHANGED << impl, execKind, sink, genIdx, event_queue,
                    accumulated_content, final_output,
                    stream_terminated_successfully, notifs, raisedAt,
                    cancelledAt, primaryFired >>

\* Trace style: the executor raises an Exception; it reaches the outer
\* except of the handler.
AgentRaise(fired) ==
    /\ spc = "agent"
    /\ raisedAt' = Len(on_chain_error(sink, fired))
    /\ Pass(CriticalError(on_chain_error(sink, fired)), 0)
    /\ stream_terminated_successfully' = TRUE
    /\ spc' = "finally"
    /\ UNCHANGED notStream
    /\ UNCHANGED consumerVars
    /\ UNCHANGED collectorVars
    /\ UNCHANGED << impl, execKind, accumulated_content,
                    final_response_content, final_output, notifs,
                    cancelledAt, primaryFired >>

\* Where the task of a streaming call can be suspended: in the executor's
\* stream, and in the service also in the awaits of the reconcile step, which
\* is inside the same try (lines 836-838).
TaskSuspended ==
    \/ spc \in { "simple", "agent" }
    \/ impl = "svc" /\ spc = "entered"

\* The task is cancelled while suspended: CancelledError is a BaseException.
\* pkg: neither "except Exception" catches it, the finally block runs. svc:
\* "except BaseException" converts it.
Cancel ==
    /\ TaskSuspended
    /\ cancelledAt' = Len(sink)
    /\ Pass(IF impl = "svc" THEN CriticalError(sink) ELSE sink, 0)
    /\ spc' = "finally"
    /\ UNCHANGED notStream
    /\ UNCHANGED consumerVars
    /\ UNCHANGED collectorVars
    /\ UNCHANGED << impl, execKind, accumulated_content,
                    final_response_content, final_output,
                    stream_terminated_successfully, notifs, raisedAt,
                    primaryFired >>

\* The common tail: CHAIN_END or END.
SendFinal ==
    /\ spc = "final"
    /\ Pass(SendFinalEvent(sink, final_response_content), 0)
    /\ stream_terminated_successfully' = TRUE
    /\ spc' = "finally"
    /\ UNCHANGED notStream
    /\ UNCHANGED consumerVars
    /\ UNCHANGED collectorVars
    /\ UNCHANGED << impl, execKind, accumulated_content,
                    final_response_content, final_output, notifs, raisedAt,
                    cancelledAt, primaryFired >>

\* The finally block; the handler has returned (or re-raised) after it.
Finally ==
    /\ spc = "finally"
    /\ Pass(FinallyFallback(sink, stream_terminated_successfully), 0)
    /\ spc' = "done"
    /\ UNCHANGED notStream
    /\ UNCHANGED consumerVars
    /\ UNCHANGED collectorVars
    /\ UNCHANGED << impl, execKind, accumulated_content,
                    final_response_content, final_output,
                    stream_terminated_successfully, notifs, raisedAt,
                    cancelledAt, primaryFired >>

\* The forwarding loop of websocket_chat_stream_handler takes the next
\* event from the queue, sends it, and leaves the loop on "end".
WsForward ==
    /\ ws_open /\ event_queue # << >>
    /\ ws_sent' = IF Forwards(Head(event_queue))
                      THEN Append(ws_sent, Head(event_queue)) ELSE ws_sent
    /\ ws_open' = (Head(event_queue).kind # END)
    /\ event_queue' = Tail(event_queue)
    /\ UNCHANGED notStream
    /\ UNCHANGED collectorVars
    /\ UNCHANGED << impl, execKind, spc, sink, genIdx, accumulated_content,
                    final_response_content, final_output,
                    stream_terminated_successfully, notifs, raisedAt,
                    cancelledAt, primaryFired >>

StreamNext ==
    \/ \E ek \in { "none", "simple", "agent", "raise" } : BeginRequest(ek)
    \/ NoExecutor
    \/ ComponentsRaise
    \/ EnterLoop
    \/ \E c \in Frags, fired \in BOOLEAN : SimpleChunk(c, fired)
    \/ SimpleEnd
    \/ \E fired \in BOOLEAN : SimpleRaise(fired)
    \/ \E c \in Frags : AgentToken(c)
    \/ \E start \in BOOLEAN : AgentTool(start)
    \/ AgentChainStart
    \/ \E outer \in BOOLEAN, out \in Frags \cup { NoneT },
          cout \in Frags \cup { NoneT } : AgentChainEnd(outer, out, cout)
    \/ \E out \in Frags : AgentFinish(out)
    \/ AgentEnd
    \/ \E fired \in BOOLEAN : AgentRaise(fired)
    \/ Cancel
    \/ SendFinal
    \/ Finally
    \/ WsForward


\* ------------------------------------------------------------------------
\* Streaming: claims
\* ------------------------------------------------------------------------

\* C1: at every moment the sink of a streaming request holds at most one
\* terminal event (CHAIN_END or END) and nothing after it, and once the
\* handler has exited it holds exactly one, as its last event - on the
\* no-executor path, on normal completion with or without final content, and
\* when the executor raises or the task is cancelled.
C1_ExactlyOneTerminal ==
    /\ TerminalIdx(sink) \subseteq { Len(sink) }
    /\ spc = "done" => TerminalIdx(sink) = { Len(sink) } /\ Len(sink) > 0

\* C1 witness: a request that streamed tokens has exited on CHAIN_END.
C1_Witness ==
    /\ spc = "done"
    /\ Len(sink) >= 3
    /\ sink[1].kind = TOKEN
    /\ sink[Len(sink)].kind = CHAIN_END

C2_FallbackReached ==
    /\ spc = "done" /\ impl = "pkg" /\ cancelledAt >= 1
    /\ ~stream_terminated_successfully

\* The handler has exited after its loop ended normally.
CompletedNormally == spc = "done" /\ raisedAt < 0 /\ cancelledAt < 0

\* C17: a delta-style request that completes normally ends with one
\* CHAIN_END carrying the concatenation of the fragments when that
\* accumulation is non-empty, and with END and no CHAIN_END when it is empty.
C17_DeltaTerminal ==
    (CompletedNormally /\ execKind = "simple") =>
        IF accumulated_content # << >>
            THEN sink[Len(sink)] = Ev(CHAIN_END, accumulated_content)
            ELSE /\ sink[Len(sink)].kind = END
                 /\ \A i \in 1..Len(sink) : sink[i].kind # CHAIN_END

\* C18: in the trace style the end of a nested chain never supplies the
\* final content and never causes a CHAIN_END: a CHAIN_END sent after the
\* collector was used does not carry what a nested chain end left there.
C18_NestedIgnored ==
    (CompletedNormally /\ execKind = "agent" /\ usedCollector) =>
        collectedFrom # "nested"

\* C19: the collector's value is used exactly when the primary capture never
\* fired and the collector holds a payload; whenever the primary capture
\* fired, the content of CHAIN_END is the one it captured.
C19_CollectorOnlyWithoutPrimary ==
    (CompletedNormally /\ execKind = "agent") =>
        /\ usedCollector => ~primaryFired
        /\ (~primaryFired /\ Truthy(final_output)) => usedCollector

\* C20: the TOKEN and tool events reach the far end of the per-request queue
\* in the order the executor generated them: the calls of the sink are in
\* generation order, and the queue and the forwarding loop hand on exactly
\* those events in that order.
C20_GenerationOrder ==
    /\ \A i, j \in 1..Len(sink) :
           (i < j /\ sink[i].kind \in ProgressKinds
                  /\ sink[j].kind \in ProgressKinds) => genIdx[i] <= genIdx[j]
    /\ Progress(ws_sent \o event_queue) = Progress(sink)

\* C21: every event handed to a sink has a kind in the closed set TOKEN,
\* TOOL_START, TOOL_END, ERROR, CHAIN_END, END; no other kind is ever emitted.
C21_ClosedTaxonomy ==
    \A i \in 1..Len(sink) :
        sink[i].kind \in { TOKEN, TOOL_START, TOOL_END, ERROR, CHAIN_END, END }

\* C33: the sink built by websocket_output_stream_fn_factory puts one item
\* on the request's queue for every call made by the streaming service or
\* its callback handler, in call order: what the forwarding loop has sent
\* and what still waits in the queue are together what the calls handed
\* over, and once the service has exited on END, that event has been
\* received by the forwarding loop (which it ends) or waits in the queue.
C33_EveryCallEnqueued ==
    /\ ws_sent \o SelectSeq(event_queue, Forwards) = SelectSeq(sink, Forwards)
    /\ (spc = "done" /\ Len(sink) > 0 /\ sink[Len(sink)].kind = END) =>
           \/ ~ws_open
           \/ /\ event_queue # << >>
              /\ event_queue[Len(event_queue)].kind = END

\* The text the client assembles from a sink: the payloads of its TOKEN
\* events, concatenated in emission order.
RECURSIVE TokenText(_)
TokenText(s) ==
    IF s = << >> THEN << >>
    ELSE IF Head(s).kind = TOKEN THEN Head(s).data \o TokenText(Tail(s))
                                 ELSE TokenText(Tail(s))

\* The TOKEN events of the sink made for the n-th fragment of the executor.
TokensFor(n) == { i \in 1..Len(sink) : sink[i].kind = TOKEN /\ genIdx[i] = n }

\* C31: in the delta style a fragment of the executor yields at most one
\* TOKEN event at the sink (the stream loop and the streaming callback do
\* not both emit it), and when the request has ended with CHAIN_END the
\* concatenation of its TOKEN payloads equals the CHAIN_END content.
C31_OneTokenPerFragment ==
    execKind = "simple" =>
        /\ \A n \in 1..notifs : Cardinality(TokensFor(n)) <= 1
        /\ (spc = "done" /\ Len(sink) > 0
                /\ sink[Len(sink)].kind = CHAIN_END) =>
               TokenText(sink) = sink[Len(sink)].data


\* ------------------------------------------------------------------------
\* Streaming: websocket_chat_stream_handler around one call
\* ------------------------------------------------------------------------

\* The handler has created the task of the call (chat.py 58-68) and is in
\* its try block; the client is connected.
HandlerInit ==
    /\ handler_pc = "try"
    /\ ws_connected = TRUE
    /\ final_message = << >>

\* The client goes away. Nothing in the server runs at that moment: the
\* handler learns of it when a send fails.
Disconnect ==
    /\ ws_connected /\ handler_pc # "returned"
    /\ ws_connected' = FALSE
    /\ UNCHANGED << handler_pc, final_message >>
    /\ UNCHANGED streamVars
    /\ UNCHANGED notHandler

\* The forwarding loop takes an event that it has to send, and send_json
\* raises on the closed socket: the loop is left (chat.py 201-226).
WsSendFails ==
    /\ handler_pc = "try" /\ ws_open /\ event_queue # << >>
    /\ Forwards(Head(event_queue)) /\ ~ws_connected
    /\ ws_open' = FALSE
    /\ event_queue' = Tail(event_queue)
    /\ UNCHANGED handlerVars
    /\ UNCHANGED collectorVars
    /\ UNCHANGED << impl, execKind, spc, sink, genIdx, accumulated_content,
                    final_response_content, final_output,
                    stream_terminated_successfully, notifs, raisedAt,
                    cancelledAt, primaryFired, ws_sent >>
    /\ UNCHANGED notHandler

\* queue.get() times out (chat.py 173-199): the loop is left when the task
\* is done, and when the overall stream timeout has passed; then an
\* error_event is sent, and on a closed socket that send raises
\* WebSocketDisconnect out of the except clause into the outer handler, which
\* cancels the task (246-249) before the finally block does.
HandlerTimeout ==
    /\ handler_pc = "try" /\ ws_open /\ event_queue = << >>
    /\ spc = "done" \/ TaskSuspended
    /\ ws_open' = FALSE
    /\ UNCHANGED handlerVars
    /\ UNCHANGED collectorVars
    /\ UNCHANGED << impl, execKind, spc, sink, genIdx, event_queue,
                    accumulated_content,
                    final_response_content, final_output,
                    stream_terminated_successfully, notifs, raisedAt,
                    cancelledAt, primaryFired, ws_sent >>
    /\ UNCHANGED notHandler

\* "".join(accumulated_tokens) (chat.py 231): the data of the tokens the
\* loop has sent.
AccumulatedTokens == TokenText(ws_sent)

\* After the loop (chat.py 230-243) the accumulated tokens, when there are
\* any, are sent once more as one "final" message to a client that is still
\* connected. Then the finally block (269-287), at a moment the task is
\* suspended or done: a task that is not done is cancelled and awaited with
\* wait_for(agent_task, timeout=5.0).
HandlerFinally ==
    /\ handler_pc = "try" /\ ~ws_open
    /\ spc = "done" \/ TaskSuspended
    /\ final_message' = IF ws_connected THEN AccumulatedTokens ELSE << >>
    /\ handler_pc' = IF spc = "done" THEN "returned" ELSE "waiting"
    /\ UNCHANGED ws_connected
    /\ UNCHANGED streamVars
    /\ UNCHANGED notHandler

\* wait_for returns or raises CancelledError, both handled: the task has
\* ended. (The 5 s timeout of wait_for cannot pass first: once the
\* CancelledError is delivered the task runs to its end without suspending,
\* the sink being put_nowait on the queue.)
HandlerReturn ==
    /\ handler_pc = "waiting" /\ spc = "done"
    /\ handler_pc' = "returned"
    /\ UNCHANGED << ws_connected, final_message >>
    /\ UNCHANGED streamVars
    /\ UNCHANGED notHandler

\* One call under the handler: the task's steps as long as no cancellation
\* is pending, the delivery of the cancellation, and the handler's own
\* steps.
HandlerNext ==
    \/ \E ek \in { "none", "simple", "agent", "raise" } :
           spc = "idle" /\ BeginRequest(ek)
    \/ handler_pc # "waiting" /\ NoExecutor
    \/ handler_pc # "waiting" /\ ComponentsRaise
    \/ handler_pc # "waiting" /\ EnterLoop
    \/ handler_pc # "waiting" /\ SimpleChunk(<< 1 >>, FALSE)
    \/ handler_pc # "waiting" /\ SimpleEnd
    \/ handler_pc # "waiting" /\ SimpleRaise(FALSE)
    \/ handler_pc # "waiting" /\ AgentToken(<< 1 >>)
    \/ handler_pc # "waiting" /\ AgentEnd
    \/ handler_pc # "waiting" /\ AgentRaise(FALSE)
    \/ handler_pc = "waiting" /\ Cancel
    \/ SendFinal
    \/ Finally
    \/ handler_pc = "try" /\ event_queue # << >>
           /\ (ws_connected \/ ~Forwards(Head(event_queue))) /\ WsForward
    \/ Disconnect
    \/ WsSendFails
    \/ HandlerTimeout
    \/ HandlerFinally
    \/ HandlerReturn

\* C22: when the client disconnects during a streaming call, the handler
\* cancels the task if it is still running, the cancelled task's cleanup
\* still hands a terminal END to the sink, and the handler returns, the task
\* having ended: it never returns leaving the task running, what it waits
\* for after the cancellation is only the task's cleanup, and after a
\* disconnect it always gets to its return.
C22_DisconnectCancels ==
    /\ []( handler_pc = "returned" => spc = "done" )
    /\ []( (handler_pc = "waiting" /\ cancelledAt >= 0) =>
               spc \in { "finally", "done" } )
    /\ []( (spc = "done" /\ cancelledAt >= 0) =>
               /\ \E i \in (cancelledAt + 1)..Len(sink) : sink[i].kind = END
               /\ sink[Len(sink)].kind = END )
    /\ (~ws_connected ~> handler_pc = "returned")

\* The loop has sent the "end" message to the client.
EndForwarded ==
    /\ ws_sent # << >>
    /\ ws_sent[Len(ws_sent)].kind = END

\* C39: the handler always leaves its event loop for a request, and once it
\* has forwarded the "end" message it sends no further message for that
\* request.
C39_EndIsLastMessage ==
    /\ <>(~ws_open)
    /\ [](EndForwarded => final_message = << >>)

\* C22 witness: the client went away while tokens were streamed, the handler
\* cancelled the task, the cleanup ended the sink with END, and the handler
\* has returned.
C22_Witness ==
    /\ ~ws_connected /\ handler_pc = "returned"
    /\ cancelledAt >= 1 /\ spc = "done"
    /\ sink[1].kind = TOKEN /\ sink[Len(sink)].kind = END


\* ------------------------------------------------------------------------
\* Blocking dispatcher: state
\* ------------------------------------------------------------------------

\* Bound: the number of requests accepted by submit_request in one run.
MaxReq == 3

\* Session ids and questions a caller passes to submit_request.
\* Bound: the stop sentinels that may sit in the queue at one time.
MaxSentinels == 2

ReqSessionIds == { None, "s1" }

ReqQuestions == { None, "q" }

\* The id submit_request of the service generates for a None session id.
GeneratedId == "request-uuid"

Item(sid, q, f) == [ session_id |-> sid, question |-> q, future |-> f ]

\* The tuple stop() puts: every field None (future 0 stands for None).
Sentinel == Item(None, None, 0)

NoItem == Item("-", "-", 0)

\* dispatcher_thread and dispatcher_thread.is_alive()
ThreadAlive == dispatcher_thread \in { "waiting", "processing", "blocked" }

\* self.loop.is_running(): the loop made by asyncio.new_event_loop() in
\* start() is handed to no run_forever()/run_until_complete(), in neither
\* variant, so it never runs.
LoopIsRunning == FALSE

\* "if question is None and session_id is None" of _process_queue.
IsStopSignal(item) == item.question = None /\ item.session_id = None

\* The check at the head of submit_request.
SubmitAccepts ==
    IF dvariant = "pkg" THEN is_running /\ ThreadAlive ELSE ThreadAlive

\* The session id submit_request enqueues.
QueuedSessionId(sid) ==
    IF dvariant = "svc" /\ sid = None THEN GeneratedId ELSE sid

PendingFutures == { f \in 1..MaxReq : futures[f] = "pending" }

SentinelsQueued ==
    Cardinality({ i \in 1..Len(request_queue) : request_queue[i] = Sentinel })

QueuedFutures ==
    { request_queue[i].future : i \in 1..Len(request_queue) } \ { 0 }

\* ------------------------------------------------------------------------
\* Blocking dispatcher: actions
\* ------------------------------------------------------------------------

\* RequestDispatcher.__init__ leaves the thread unstarted;
\* LangchainAgentService.__init__ ends with start_dispatcher().
DispInit ==
    /\ dvariant \in { "pkg", "svc" }
    /\ is_running = FALSE
    /\ dispatcher_thread = IF dvariant = "svc" THEN "waiting" ELSE "none"
    /\ request_queue = << >>
    /\ futures = [ f \in 1..MaxReq |-> "unused" ]
    /\ resolutions = [ f \in 1..MaxReq |-> 0 ]
    /\ nextFuture = 1
    /\ current = NoItem
    /\ dropped = { }
    /\ stopPc = "idle"
    /\ stopLog = "none"
    /\ pendingAtStop = { }
    /\ stopCalled = FALSE
    /\ acceptedAfterStop = FALSE
    /\ chat_messages_for_log = << >>
    /\ lastCall = IF dvariant = "svc" THEN "start" ELSE "none"

\* start() / start_dispatcher(): nothing when the thread is alive, else a
\* new loop and a new thread running _process_queue.
Start ==
    /\ IF ThreadAlive
       THEN UNCHANGED << is_running, dispatcher_thread, stopCalled >>
       ELSE /\ is_running' = (dvariant = "pkg")
            /\ dispatcher_thread' = "waiting"
            /\ stopCalled' = FALSE
    /\ lastCall' = "start"
    /\ UNCHANGED notDisp
    /\ UNCHANGED << dvariant, request_queue, futures, resolutions,
                    nextFuture, current, dropped, stopPc, stopLog,
                    pendingAtStop, acceptedAfterStop,
                    chat_messages_for_log >>

\* submit_request(session_id, question, ...): refused when the head check
\* fails (pkg raises RuntimeError, svc returns a failed Future that is not
\* enqueued), else a new Future is enqueued.
SubmitRequest(sid, q) ==
    /\ nextFuture <= MaxReq
    /\ IF SubmitAccepts
       THEN /\ request_queue' =
                   Append(request_queue,
                          Item(QueuedSessionId(sid), q, nextFuture))
            /\ futures' = [ futures EXCEPT ![nextFuture] = "pending" ]
            /\ nextFuture' = nextFuture + 1
            /\ acceptedAfterStop' = (acceptedAfterStop \/ stopCalled)
       ELSE UNCHANGED << request_queue, futures, nextFuture,
                         acceptedAfterStop >>
    /\ UNCHANGED lastCall
    /\ UNCHANGED notDisp
    /\ UNCHANGED << dvariant, is_running, dispatcher_thread, resolutions,
                    current, dropped, stopPc, stopLog, pendingAtStop,
                    stopCalled, chat_messages_for_log >>

\* _process_queue: request_queue.get() returns the head; an item whose
\* question and session id are both None ends the loop.
ThreadGet ==
    /\ dispatcher_thread = "waiting"
    /\ request_queue # << >>
    /\ request_queue' = Tail(request_queue)
    /\ IF IsStopSignal(Head(request_queue))
       THEN /\ dispatcher_thread' = "exited"
            /\ dropped' = dropped \cup ({ Head(request_queue).future } \ { 0 })
            /\ UNCHANGED current
       ELSE /\ dispatcher_thread' = "processing"
            /\ current' = Head(request_queue)
            /\ UNCHANGED dropped
    /\ UNCHANGED lastCall
    /\ UNCHANGED notDisp
    /\ UNCHANGED << dvariant, is_running, futures, resolutions, nextFuture,
                    stopPc, stopLog, pendingAtStop, stopCalled,
                    acceptedAfterStop, chat_messages_for_log >>

\* The two appends after the executor has returned
\* (dispatcher.py 222-223, langchain_agent_service.py 1028-1029).
AppendTurn(log, item) ==
    log \o << << item.session_id, "human", item.question >>,
              << item.session_id, "ai", "answer" >> >>

\* _process_queue after the stop check: question[:30] raises TypeError for a
\* None question and the outer except sets the Future's exception; else the
\* coroutine is handed to the loop and .result() waits for it. On a loop
\* that runs, the turn completes: the executor returns, the question and the
\* answer are appended and the Future gets the answer; or something raises
\* and the Future gets the exception.
ThreadProcess ==
    /\ dispatcher_thread = "processing"
    /\ IF current.question = None
       THEN /\ futures' = [ futures EXCEPT ![current.future] = "exception" ]
            /\ resolutions' =
                   [ resolutions EXCEPT ![current.future] = @ + 1 ]
            /\ current' = NoItem
            /\ dispatcher_thread' = "waiting"
            /\ UNCHANGED chat_messages_for_log
       ELSE IF LoopIsRunning
       THEN \E ok \in BOOLEAN :
            /\ futures' = [ futures EXCEPT ![current.future] =
                                IF ok THEN "result" ELSE "exception" ]
            /\ resolutions' =
                   [ resolutions EXCEPT ![current.future] = @ + 1 ]
            /\ chat_messages_for_log' =
                   IF ok THEN AppendTurn(chat_messages_for_log, current)
                         ELSE chat_messages_for_log
            /\ current' = NoItem
            /\ dispatcher_thread' = "waiting"
       ELSE /\ dispatcher_thread' = "blocked"
            /\ UNCHANGED << futures, resolutions, current,
                            chat_messages_for_log >>
    /\ UNCHANGED lastCall
    /\ UNCHANGED notDisp
    /\ UNCHANGED << dvariant, is_running, request_queue, nextFuture,
                    dropped, stopPc, stopLog, pendingAtStop, stopCalled,
                    acceptedAfterStop >>

\* stop() / stop_dispatcher() up to join(): nothing but a log line when the
\* thread is not alive, else the sentinel is enqueued and join begins.
StopBegin ==
    /\ stopPc = "idle"
    /\ ThreadAlive => SentinelsQueued < MaxSentinels
    /\ pendingAtStop' = PendingFutures
    /\ IF ThreadAlive
       THEN /\ request_queue' = Append(request_queue, Sentinel)
            /\ stopPc' = "joining"
            /\ stopLog' = "none"
            /\ stopCalled' = TRUE
       ELSE /\ stopLog' = "not running"
            /\ UNCHANGED << request_queue, stopPc, stopCalled >>
    /\ lastCall' = IF ThreadAlive THEN lastCall ELSE "stop"
    /\ UNCHANGED notDisp
    /\ UNCHANGED << dvariant, is_running, dispatcher_thread, futures,
                    resolutions, nextFuture, current, dropped,
                    acceptedAfterStop, chat_messages_for_log >>

\* stop() after join(timeout=5): join returns when the thread has exited or
\* when the five seconds are over; then the flag is cleared (pkg).
StopJoinReturn ==
    /\ stopPc = "joining"
    /\ stopLog' = IF ThreadAlive THEN "did not stop in time" ELSE "stopped"
    /\ is_running' = FALSE
    /\ stopPc' = "idle"
    /\ lastCall' = "stop"
    /\ UNCHANGED notDisp
    /\ UNCHANGED << dvariant, dispatcher_thread, request_queue, futures,
                    resolutions, nextFuture, current, dropped,
                    pendingAtStop, stopCalled, acceptedAfterStop,
                    chat_messages_for_log >>

DispNext ==
    \/ Start
    \/ \E sid \in ReqSessionIds, q \in ReqQuestions : SubmitRequest(sid, q)
    \/ ThreadGet
    \/ ThreadProcess
    \/ StopBegin
    \/ StopJoinReturn

\* ------------------------------------------------------------------------
\* Blocking dispatcher: claims
\* ------------------------------------------------------------------------

\* The request the dispatcher thread is handling, 0 when there is none.
Handling ==
    IF dispatcher_thread \in { "processing", "blocked" }
    THEN current.future ELSE 0

\* C3: requests are taken in submission order, one at a time: the queue
\* holds the accepted requests in the order of their submission, all of them
\* later than the one being handled, and while a request is being handled
\* every request accepted before it has had its Future resolved.
C3_FifoOneAtATime ==
    /\ \A i, j \in 1..Len(request_queue) :
           (i < j /\ request_queue[i].future # 0
                  /\ request_queue[j].future # 0)
               => request_queue[i].future < request_queue[j].future
    /\ \A f \in QueuedFutures : Handling < f
    /\ \A f \in 1..MaxReq :
           (Handling # 0 /\ f < Handling) => futures[f] # "pending"

\* C4: every accepted request's Future is completed exactly once: no Future
\* is resolved twice, and the dispatcher thread never waits for a request's
\* coroutine on a loop that is not running (a wait that cannot end, so that
\* the Future would stay pending for ever).
C4_FutureResolvedOnce ==
    /\ \A f \in 1..MaxReq : resolutions[f] <= 1
    /\ \A f \in 1..MaxReq : futures[f] = "unused" => resolutions[f] = 0
    /\ dispatcher_thread = "blocked" => LoopIsRunning

\* C5: submit_request enqueues nothing once stop() has been called (until
\* the next start()), and no request sits in the queue of a thread that is
\* not alive or behind an item that ends the thread's loop.
C5_NoRequestAfterStop ==
    /\ ~acceptedAfterStop
    /\ \A j \in 1..Len(request_queue) :
           request_queue[j].future # 0 =>
               /\ ThreadAlive
               /\ \A i \in 1..(j - 1) : ~IsStopSignal(request_queue[i])

\* C6: when stop() has returned without logging that the thread did not
\* stop in time, every request that was pending when stop() was called has
\* its Future resolved or can still get it resolved (it is still queued or
\* being handled, not abandoned by the thread).
C6_StopAccountsForPending ==
    (stopPc = "idle" /\ stopLog \in { "stopped", "not running" }) =>
        \A f \in pendingAtStop : futures[f] = "pending" => f \notin dropped

\* C35: after any sequence of start() and stop() calls that ends with
\* start(), the dispatcher is running: is_running is true, the dispatcher
\* thread is alive, and submit_request accepts - also when the stop() before
\* it timed out in join() while the thread was busy. (Stated for the runs
\* in which no request was taken for the stop signal.)
C35_RunningAfterStart ==
    (lastCall = "start" /\ stopPc = "idle" /\ dropped = { }) =>
        /\ dvariant = "pkg" => is_running
        /\ ThreadAlive
        /\ SubmitAccepts

\* C36: the dispatcher loop exits only in response to stop(): the item
\* that makes the thread leave its loop is the sentinel stop() enqueues, and
\* no accepted request, whatever its session id and question (None
\* included), is taken out of the queue and abandoned with its Future
\* unresolved.
C36_LoopExitsOnlyOnStop ==
    /\ [][(dispatcher_thread # "exited" /\ dispatcher_thread' = "exited")
              => Head(request_queue) = Sentinel]_vars
    /\ [](dropped = { })

\* The requests the thread has taken for execution (a question that is not
\* None) and is not handling any more.
Handled ==
    { f \in 1..MaxReq : futures[f] \in { "result", "exception" } }

\* C32: on the blocking path the history is append-only and updated per
\* completed turn: no entry is ever removed or reordered; the entries are
\* whole turns, a question followed by its answer; and a request with a
\* question that the thread has taken for execution completes its turn -
\* the thread does not stay in it for ever on a loop that nothing runs, with
\* the history never updated.
C32_HistoryPerTurn ==
    /\ [][IsPrefix(chat_messages_for_log, chat_messages_for_log')]_vars
    /\ [](\A i \in 1..Len(chat_messages_for_log) :
              IF i % 2 = 1
              THEN chat_messages_for_log[i][2] = "human"
              ELSE /\ chat_messages_for_log[i][2] = "ai"
                   /\ chat_messages_for_log[i][1] =
                          chat_messages_for_log[i - 1][1])
    /\ [](Len(chat_messages_for_log) =
              2 * Cardinality({ f \in Handled : futures[f] = "result" }))
    /\ [](dispatcher_thread = "blocked" => LoopIsRunning)

\* ------------------------------------------------------------------------
\* Session registry and reconciler: values
\* ------------------------------------------------------------------------

\* Bound: the turns recorded in one session's history.
MaxHist == 1

SessionIds == { "s1" }

LlmIds == { "A", "B" }

\* The config get_default_llm_config() returns.
DefaultLlmId == "A"

\* An enabled-tool mapping {server: [tool, ...]} as a set of pairs.
EmptyMap == { }

MapA == { << "srvA", "t1" >> }

\* tools_config dicts: {}, {"enabled_tools": {}}, {"enabled_tools": MapA}.
TcNone == [ has_enabled_tools |-> FALSE, enabled_tools |-> EmptyMap ]

TcEmpty == [ has_enabled_tools |-> TRUE, enabled_tools |-> EmptyMap ]

TcA == [ has_enabled_tools |-> TRUE, enabled_tools |-> MapA ]

ToolsConfigs == { TcNone, TcEmpty, TcA }

\* The agent_mode values a request can carry. Every value other than
\* "react" and "json" (an explicit "chat" among them) takes the branch None
\* takes.
AgentModes == { None, "react", "json" }

DataSources == { None, "D" }

\* The arguments of one reconcile call; a data source is given only
\* together with the mode that reads it.
Requests ==
    { r \in [ llm_config_id : LlmIds \cup { None },
              tools_config : ToolsConfigs,
              agent_mode : AgentModes,
              agent_data_source : DataSources ] :
        r.agent_data_source # None => r.agent_mode = "json" }

\* tools_config.get("enabled_tools", {})
GetEnabledTools(tc) ==
    IF tc.has_enabled_tools THEN tc.enabled_tools ELSE EmptyMap

\* A ChatMessageHistory object: its identity and its messages.
History(id, msgs) == [ id |-> id, messages |-> msgs ]

\* "session_id not in self.sessions".
NoSession ==
    [ exists |-> FALSE, llm |-> None, agent_executor |-> "none",
      mcp_client |-> None, memory_saver |-> History(0, << >>),
      llm_config_id_used |-> None, tools_config_used |-> TcNone,
      agent_mode_used |-> None, agent_data_source_used |-> None ]

\* ------------------------------------------------------------------------
\* Session registry and reconciler: the functions the reconciler calls
\* ------------------------------------------------------------------------

\* A verdict that is always REBUILD.
needs_session_recreation_always(session, llm, tools, mode, data) == TRUE

\* utils/session.py needs_session_recreation: a None (falsy) llm id, mode or
\* data source never triggers; the whole tools_config dict is compared.
needs_session_recreation(session, llm, tools, mode, data) ==
    IF ~session.exists THEN TRUE
    ELSE \/ (llm # None /\ session.llm_config_id_used # llm)
         \/ tools # session.tools_config_used
         \/ (mode # None /\ session.agent_mode_used # mode)
         \/ (data # None /\ session.agent_data_source_used # data)

\* services/agent/session_manager.py needs_session_recreation: plain
\* inequality on llm id, mode and data source; of the tools_config only the
\* enabled_tools mapping is compared.
needs_session_recreation_agent(session, llm, tools, mode, data) ==
    IF ~session.exists THEN TRUE
    ELSE \/ session.llm_config_id_used # llm
         \/ session.agent_mode_used # mode
         \/ session.agent_data_source_used # data
         \/ GetEnabledTools(session.tools_config_used)
                # GetEnabledTools(tools)

\* _get_llm: the explicit id or the default one; None when the manager has
\* no config for it. (An instance once made stays in _llm_cache; configs are
\* only added here, so what was obtainable stays obtainable.)
GetLlm(llm_config_id) ==
    LET effective_llm_config_id ==
            IF llm_config_id # None THEN llm_config_id ELSE DefaultLlmId
    IN  IF effective_llm_config_id \in llm_configs
        THEN effective_llm_config_id ELSE None

\* create_new_session_dict / the dict literal of lines 475-486: a new record
\* with the arguments as given and a new, empty history.
create_new_session_dict(current_llm, r, hid) ==
    [ exists |-> TRUE, llm |-> current_llm, agent_executor |-> "none",
      mcp_client |-> None, memory_saver |-> History(hid, << >>),
      llm_config_id_used |-> r.llm_config_id,
      tools_config_used |-> r.tools_config,
      agent_mode_used |-> r.agent_mode,
      agent_data_source_used |-> r.agent_data_source ]

\* A failed rebuild that leaves the record of an existing session alone.
DegradedRecord_keepExecutor(rec) == rec

\* An update that starts the history afresh.
UpdatedRecord_FreshHistory(rec, current_llm, r) ==
    [ create_new_session_dict(current_llm, r, rec.memory_saver.id)
        EXCEPT !.exists = TRUE ]

\* The update of an existing record at a rebuild (lines 452-472): executor
\* and client cleared, the history object kept, the arguments stored as
\* given.
UpdatedRecord(rec, current_llm, r) ==
    [ rec EXCEPT !.llm = current_llm,
                 !.agent_executor = "none",
                 !.mcp_client = None,
                 !.memory_saver = rec.memory_saver,
                 !.llm_config_id_used = r.llm_config_id,
                 !.tools_config_used = r.tools_config,
                 !.agent_mode_used = r.agent_mode,
                 !.agent_data_source_used = r.agent_data_source ]

\* No LLM for an existing session (lines 430-432): only the executor is
\* cleared.
DegradedRecord(rec) == [ rec EXCEPT !.agent_executor = "none" ]

\* The branch of the executor factory a request takes.
Branch(r) ==
    IF r.agent_mode = "json" /\ r.agent_data_source # None THEN "json"
    ELSE IF r.agent_mode = "react" THEN "react"
    ELSE "default"

\* The enabled-tool mapping the branch connects for: the request's own, or
\* in the default branch the global one when the request has none.
EffectiveTools(r) ==
    IF GetEnabledTools(r.tools_config) # EmptyMap
    THEN GetEnabledTools(r.tools_config)
    ELSE IF Branch(r) = "default" THEN globally_active_tools
    ELSE EmptyMap

WantsTools(r) == Branch(r) # "json" /\ EffectiveTools(r) # EmptyMap

\* ------------------------------------------------------------------------
\* Session registry and reconciler: actions
\* ------------------------------------------------------------------------

NoRequest ==
    [ llm_config_id |-> None, tools_config |-> TcNone, agent_mode |-> None,
      agent_data_source |-> None ]

\* What a call remembers of the record it found.
Before(rec) ==
    [ exists |-> rec.exists,
      llm_config_id_used |-> rec.llm_config_id_used,
      agent_mode_used |-> rec.agent_mode_used,
      agent_data_source_used |-> rec.agent_data_source_used,
      memory_saver |-> rec.memory_saver,
      mcp_client |-> rec.mcp_client ]

\* No call in progress.
IdleCall ==
    [ pc |-> "idle", session_id |-> "s1", request |-> NoRequest,
      session_needs_recreation |-> FALSE, current_llm |-> None,
      mcp_client |-> None, raised |-> FALSE, before |-> Before(NoSession),
      repeat |-> FALSE, prev_built |-> FALSE, released |-> FALSE,
      release_error |-> FALSE, created |-> FALSE, built |-> FALSE,
      changed |-> FALSE, degraded_same |-> FALSE,
      filter_at_start |-> EmptyMap, read_later_filter |-> FALSE ]

CallQuiet == call.pc \in { "idle", "returned", "exec_failed" }

\* Not degraded.
NotDegraded == [ on |-> FALSE, request |-> NoRequest ]

DegradedBy(r) == [ on |-> TRUE, request |-> r ]

SessInit ==
    /\ sessions = [ sid \in SessionIds |-> NoSession ]
    /\ llm_configs \in { { }, { DefaultLlmId } }
    /\ globally_active_tools = EmptyMap
    /\ nextHistory = 1
    /\ call = IdleCall
    /\ degraded_by = [ sid \in SessionIds |-> NotDegraded ]

\* _get_or_create_session_components(session_id, r) up to its first await
\* that suspends: the verdict, and for REBUILD the LLM (lines 419-437); REUSE
\* returns the record as it is (lines 789-794).
GetOrCreate(sid, r) ==
    /\ CallQuiet
    /\ LET session == sessions[sid]
           verdict == needs_session_recreation(session, r.llm_config_id,
                          r.tools_config, r.agent_mode, r.agent_data_source)
           current_llm == GetLlm(r.llm_config_id)
           started ==
               [ IdleCall EXCEPT
                   !.session_id = sid, !.request = r,
                   !.session_needs_recreation = verdict,
                   !.before = Before(session),
                   !.repeat = (call.pc = "returned" /\ call.session_id = sid
                                  /\ call.request = r),
                   !.prev_built = call.built,
                   !.degraded_same = (degraded_by[sid] = DegradedBy(r)),
                   !.filter_at_start = globally_active_tools ]
       IN  IF ~verdict
           THEN /\ call' = [ started EXCEPT !.pc = "returned" ]
                /\ UNCHANGED << sessions, nextHistory, degraded_by >>
           ELSE IF current_llm = None
           THEN /\ sessions' =
                       [ sessions EXCEPT ![sid] =
                           IF session.exists THEN DegradedRecord(session)
                           ELSE create_new_session_dict(None, r,
                                                        nextHistory) ]
                /\ nextHistory' =
                       IF session.exists THEN nextHistory
                       ELSE nextHistory + 1
                /\ call' = [ started EXCEPT
                               !.pc = "returned",
                               !.changed = (sessions'[sid] # session) ]
                /\ degraded_by' = [ degraded_by EXCEPT ![sid] = DegradedBy(r) ]
           ELSE /\ call' = [ started EXCEPT !.pc = "closing",
                                            !.current_llm = current_llm ]
                /\ UNCHANGED << sessions, nextHistory, degraded_by >>
    /\ UNCHANGED << llm_configs, globally_active_tools >>
    /\ UNCHANGED notSess

\* A rebuild that closes nothing.
CloseOldClient_never(session) == FALSE

\* Lines 443-450: __aexit__ of the old client is awaited when the record of
\* an existing session holds one.
CloseOldClient(session) == session.exists /\ session.mcp_client # None

\* REBUILD, lines 439-486: the old client of an existing session is closed
\* (await __aexit__; err: it raised, which is logged), then the record is
\* updated, or a new one is made.
ReleaseOld(err) ==
    /\ call.pc = "closing"
    /\ err => CloseOldClient(sessions[call.session_id])
    /\ LET sid == call.session_id
           session == sessions[sid]
       IN  /\ sessions' =
                  [ sessions EXCEPT ![sid] =
                      IF session.exists
                      THEN UpdatedRecord(session, call.current_llm,
                                         call.request)
                      ELSE create_new_session_dict(call.current_llm,
                                         call.request, nextHistory) ]
           /\ nextHistory' =
                  IF session.exists THEN nextHistory ELSE nextHistory + 1
           /\ call' = [ call EXCEPT
                          !.pc = "connect",
                          !.released = CloseOldClient(session),
                          !.release_error = err,
                          !.changed = (sessions'[sid] # session) ]
           /\ degraded_by' = [ degraded_by EXCEPT ![sid] = NotDegraded ]
    /\ UNCHANGED << llm_configs, globally_active_tools >>
    /\ UNCHANGED notSess

\* REBUILD, the client of the react and default branches (lines 550-620,
\* 656-720). outcome: "none" no tools wanted or no server configured,
\* "failed" the client was made but __aenter__ raised, "open" it connected
\* and was stored in the record at once.
ConnectTools(outcome) ==
    /\ call.pc = "connect"
    /\ ~WantsTools(call.request) => outcome = "none"
    /\ sessions' =
           IF outcome = "open"
           THEN [ sessions EXCEPT ![call.session_id].mcp_client = "open" ]
           ELSE sessions
    /\ call' = [ call EXCEPT
                   !.pc = "build",
                   !.mcp_client = IF outcome = "none" THEN None ELSE outcome,
                   !.read_later_filter =
                       ( /\ Branch(call.request) = "default"
                         /\ GetEnabledTools(call.request.tools_config)
                                = EmptyMap
                         /\ globally_active_tools # call.filter_at_start ),
                   !.filter_at_start = EmptyMap,
                   !.created = (outcome # "none"),
                   !.changed = (call.changed \/ outcome = "open") ]
    /\ UNCHANGED << llm_configs, globally_active_tools, nextHistory,
                    degraded_by >>
    /\ UNCHANGED notSess

\* The executor a branch makes. ok: the JSON document loads and the agent is
\* made (json), hub.pull answers (react, tools). found: create_tools()
\* returned at least one tool of the connected client. "raise": hub.pull
\* raised and the exception leaves the reconciler.
RawExecutor(r, client, ok, found) ==
    IF Branch(r) = "json" THEN (IF ok THEN "json" ELSE "none")
    ELSE IF Branch(r) = "react" THEN (IF ok THEN "react" ELSE "raise")
    ELSE IF ~(client = "open" /\ found) THEN "simple"
    ELSE IF ok THEN "tools" ELSE "raise"

\* REBUILD, lines 512-544, 623-644, 722-787: the executor is made and the
\* record gets it together with the local mcp_client.
BuildExecutor(ok, found) ==
    /\ call.pc = "build"
    /\ LET sid == call.session_id
           raw == RawExecutor(call.request, call.mcp_client, ok, found)
       IN  IF raw = "raise"
           THEN /\ call' = [ call EXCEPT !.pc = "returned",
                                         !.raised = TRUE ]
                /\ UNCHANGED sessions
           ELSE /\ sessions' =
                       [ sessions EXCEPT ![sid].agent_executor = raw,
                                         ![sid].mcp_client = call.mcp_client ]
                /\ call' = [ call EXCEPT !.pc = "returned",
                                         !.built = (raw # "none"),
                                         !.changed = TRUE ]
    /\ UNCHANGED << llm_configs, globally_active_tools, nextHistory,
                    degraded_by >>
    /\ UNCHANGED notSess

\* A turn of the session's executor: RunnableWithMessageHistory (lines
\* 765-771) appends the exchange to the record's memory_saver.
Turn(sid) ==
    /\ CallQuiet
    /\ sessions[sid].agent_executor # "none"
    /\ Len(sessions[sid].memory_saver.messages) < MaxHist
    /\ sessions' =
           [ sessions EXCEPT ![sid].memory_saver.messages =
               Append(@, Len(@) + 1) ]
    /\ call' = IdleCall
    /\ UNCHANGED << llm_configs, globally_active_tools, nextHistory,
                    degraded_by >>
    /\ UNCHANGED notSess

\* A record the error path of a request has cleared.
SessionAfterExecutionError_cleared(rec) ==
    [ rec EXCEPT !.agent_executor = "none", !.mcp_client = None ]

\* What the except blocks around the executor's run do to the session
\* record (langchain_agent_service.py 884-890 and 956-965, streaming.py
\* 76-82 and 226-240, dispatcher.py 230-234): they report, and leave the
\* record as it is.
SessionAfterExecutionError(rec) == rec

\* The request whose reconcile call has just returned runs the session's
\* executor, and the model or a tool raises in the middle of the run:
\* RunnableWithMessageHistory stores a turn only when the run ends, so the
\* history gets nothing.
ExecutionFails(sid) ==
    /\ call.pc = "returned" /\ ~call.raised /\ call.session_id = sid
    /\ sessions[sid].agent_executor # "none"
    /\ sessions' =
           [ sessions EXCEPT ![sid] = SessionAfterExecutionError(@) ]
    /\ call' = [ IdleCall EXCEPT !.pc = "exec_failed",
                                 !.session_id = sid,
                                 !.request = call.request ]
    /\ UNCHANGED << llm_configs, globally_active_tools, nextHistory,
                    degraded_by >>
    /\ UNCHANGED notSess

\* ConfigManager.add_llm_config: a further LLM config is registered.
add_llm_config(id) ==
    /\ CallQuiet
    /\ id \notin llm_configs
    /\ llm_configs' = llm_configs \cup { id }
    /\ call' = IdleCall
    /\ UNCHANGED << sessions, globally_active_tools, nextHistory,
                    degraded_by >>
    /\ UNCHANGED notSess

\* The reconcile call in progress is suspended in the await of the old
\* client's __aexit__ (line 447), before the filter is read. (An update
\* during the await of __aenter__, lines 598 and 697, comes after the read
\* and changes nothing the call still looks at.)
Suspended ==
    call.pc = "closing" /\ CloseOldClient(sessions[call.session_id])

\* update_globally_active_tools(tools), lines 250-261: a coroutine without
\* an await of its own, run by another task between two calls or while the
\* reconcile call is suspended.
update_globally_active_tools(tools) ==
    /\ CallQuiet \/ Suspended
    /\ tools # globally_active_tools
    /\ globally_active_tools' = tools
    /\ call' = IF CallQuiet THEN IdleCall ELSE call
    /\ UNCHANGED << sessions, llm_configs, nextHistory, degraded_by >>
    /\ UNCHANGED notSess

SessNext ==
    \/ \E sid \in SessionIds, r \in Requests : GetOrCreate(sid, r)
    \/ \E err \in BOOLEAN : ReleaseOld(err)
    \/ \E outcome \in { "none", "failed", "open" } : ConnectTools(outcome)
    \/ \E ok \in BOOLEAN, found \in BOOLEAN : BuildExecutor(ok, found)
    \/ \E sid \in SessionIds : Turn(sid)
    \/ \E sid \in SessionIds : ExecutionFails(sid)
    \/ \E id \in LlmIds : add_llm_config(id)
    \/ \E tools \in { EmptyMap, MapA } :
           CallQuiet /\ update_globally_active_tools(tools)

\* The requests of the runs in which the filter is updated while a rebuild
\* is in progress: the branches that resolve tools, with and without a
\* filter of their own.
UpdateRequests ==
    { r \in Requests :
        /\ r.llm_config_id = None /\ r.agent_data_source = None
        /\ r.agent_mode \in { None, "react" } }

\* SessNext takes the calls on the service one at a time; here the filter is
\* also updated by another task while the reconcile call is suspended.
UpdateNext ==
    \/ \E sid \in SessionIds, r \in UpdateRequests : GetOrCreate(sid, r)
    \/ \E err \in BOOLEAN : ReleaseOld(err)
    \/ \E outcome \in { "none", "failed", "open" } : ConnectTools(outcome)
    \/ \E ok \in BOOLEAN, found \in BOOLEAN : BuildExecutor(ok, found)
    \/ \E tools \in { EmptyMap, MapA } : update_globally_active_tools(tools)

\* ------------------------------------------------------------------------
\* Session registry and reconciler: claims
\* ------------------------------------------------------------------------

\* The rule of C7 for a stored record and a request.
VerdictRule(session, r) ==
    \/ ~session.exists
    \/ session.llm_config_id_used # r.llm_config_id
    \/ session.agent_mode_used # r.agent_mode
    \/ session.agent_data_source_used # r.agent_data_source
    \/ GetEnabledTools(session.tools_config_used)
           # GetEnabledTools(r.tools_config)

\* C7: for every session record and every request, both implementations of
\* needs_session_recreation answer REBUILD exactly when there is no record,
\* or the stored llm config id, agent mode or data source differs from the
\* requested one, or the stored enabled-tool mapping differs from the
\* requested one.
C7_VerdictMatchesRule ==
    \A sid \in SessionIds, r \in Requests :
        /\ needs_session_recreation(sessions[sid], r.llm_config_id,
               r.tools_config, r.agent_mode, r.agent_data_source)
             = VerdictRule(sessions[sid], r)
        /\ needs_session_recreation_agent(sessions[sid], r.llm_config_id,
               r.tools_config, r.agent_mode, r.agent_data_source)
             = VerdictRule(sessions[sid], r)

\* C8: a reconcile call that directly follows a call for the same session
\* with the same arguments returns without suspending, has closed no client,
\* made no client and no executor, and has left the record as the first
\* call left it.
C8_Idempotent ==
    call.repeat =>
        /\ call.pc = "returned"
        /\ ~call.released /\ ~call.created /\ ~call.built
        /\ ~call.changed

\* C8 witness: the second of two such calls has returned, the first one
\* having built an executor with a connected client for the session.
C8_Witness ==
    /\ call.pc = "returned" /\ call.repeat /\ call.prev_built
    /\ sessions[call.session_id].mcp_client = "open"
    /\ sessions[call.session_id].agent_executor = "tools"

\* A request differs from the record only by absent fields.
OnlyAbsentFieldsDiffer(session, r) ==
    /\ session.exists
    /\ r.tools_config = session.tools_config_used
    /\ r.llm_config_id \in { None, session.llm_config_id_used }
    /\ r.agent_mode \in { None, session.agent_mode_used }
    /\ r.agent_data_source \in { None, session.agent_data_source_used }

\* C9: an absent (None) llm config id, agent mode or data source means
\* "keep": neither implementation answers REBUILD for a request that differs
\* from the record only by absent fields, and when a call on an existing
\* session has returned, the stored value of every field the request left
\* absent is the value stored before the call.
C9_AbsentMeansKeep ==
    /\ \A sid \in SessionIds, r \in Requests :
           OnlyAbsentFieldsDiffer(sessions[sid], r) =>
               /\ ~needs_session_recreation(sessions[sid], r.llm_config_id,
                      r.tools_config, r.agent_mode, r.agent_data_source)
               /\ ~needs_session_recreation_agent(sessions[sid],
                      r.llm_config_id, r.tools_config, r.agent_mode,
                      r.agent_data_source)
    /\ (call.pc = "returned" /\ call.before.exists) =>
           LET session == sessions[call.session_id]
               r == call.request
           IN  /\ r.llm_config_id = None =>
                      session.llm_config_id_used
                          = call.before.llm_config_id_used
               /\ r.agent_mode = None =>
                      session.agent_mode_used = call.before.agent_mode_used
               /\ r.agent_data_source = None =>
                      session.agent_data_source_used
                          = call.before.agent_data_source_used


\* C10: at every point of a rebuild of an existing session, and after it,
\* the record holds the history object it held before with all the entries
\* it had; a record made for a session that did not exist has an empty
\* history.
C10_HistoryKept ==
    (call.pc # "idle" /\ call.session_needs_recreation) =>
        LET session == sessions[call.session_id]
        IN  /\ call.before.exists =>
                /\ session.memory_saver.id = call.before.memory_saver.id
                /\ IsPrefix(call.before.memory_saver.messages,
                            session.memory_saver.messages)
            /\ (~call.before.exists /\ session.exists) =>
                /\ session.memory_saver.messages = << >>
                /\ session.memory_saver.id = nextHistory - 1

\* C10 witness: a rebuild of a session with a non-empty history has returned
\* with a new executor.
C10_Witness ==
    /\ call.pc = "returned" /\ call.session_needs_recreation /\ call.built
    /\ call.before.exists
    /\ Len(call.before.memory_saver.messages) >= 1
    /\ sessions[call.session_id].llm_config_id_used
           # call.before.llm_config_id_used

\* C10 witness of creation: a first call has made the record.
C10_Created ==
    /\ call.pc = "returned" /\ ~call.before.exists
    /\ sessions[call.session_id].exists

\* C11: in a rebuild of a session whose record holds a tool client, the old
\* client has been through __aexit__ (whether or not it raised) before a new
\* client is made and before the record holds any client other than the old
\* one; until then the record still holds the old client and nothing new
\* exists; and a release that raised leaves the rebuild going: the record is
\* updated to the request and the call goes on to make the executor.
C11_ReleaseBeforeNew ==
    (/\ call.pc # "idle" /\ call.session_needs_recreation
     /\ call.before.exists /\ call.before.mcp_client # None
     /\ call.current_llm # None) =>
        LET session == sessions[call.session_id]
        IN  /\ call.pc = "closing" =>
                /\ ~call.created /\ ~call.released
                /\ session.mcp_client = call.before.mcp_client
            /\ call.pc # "closing" => call.released
            /\ call.created => call.released
            /\ (call.pc = "connect" /\ ~call.created) =>
                   session.mcp_client = None
            /\ call.release_error =>
                /\ call.pc \in { "connect", "build", "returned" }
                /\ session.tools_config_used = call.request.tools_config
                /\ session.llm = call.current_llm

\* C11 witness: a rebuild whose release of the old client raised has
\* returned with a new connected client and a new executor in the record.
C11_Witness ==
    /\ call.pc = "returned" /\ call.session_needs_recreation
    /\ call.before.mcp_client = "open"
    /\ call.release_error /\ call.released /\ call.created /\ call.built
    /\ sessions[call.session_id].mcp_client = "open"

\* C12: a request against a session whose LLM cannot be obtained ends at
\* once on the blocking path: the thread that handles it resolves the Future
\* with an error and is never left waiting for the request.
C12_DegradedRequestTerminates ==
    (GetLlm(None) = None /\ current # NoItem /\ ~IsStopSignal(current)) =>
        dispatcher_thread # "blocked"

C16_SessionSurvivesFailure ==
    [][ (call'.pc = "exec_failed" /\ call.pc # "exec_failed") =>
          /\ sessions' = sessions
          /\ sessions'[call'.session_id].agent_executor # "none"
          /\ ~needs_session_recreation(sessions'[call'.session_id],
                 call'.request.llm_config_id, call'.request.tools_config,
                 call'.request.agent_mode, call'.request.agent_data_source)
      ]_vars

\* C16 witness: a request on a session with a connected tool client and a
\* history has failed in the middle of its run.
C16_Witness ==
    /\ call.pc = "exec_failed"
    /\ sessions[call.session_id].mcp_client = "open"
    /\ sessions[call.session_id].agent_executor = "tools"
    /\ Len(sessions[call.session_id].memory_saver.messages) >= 1

\* C23: an update of the global tool filter changes nothing but the filter
\* - no session's record changes in that step - and the filter a rebuild
\* resolves its tools with is the one in force when the rebuild started: an
\* update is seen only by rebuilds that start after it.
C23_NotRetroactive ==
    /\ [][ globally_active_tools' # globally_active_tools =>
              sessions' = sessions /\ llm_configs' = llm_configs ]_vars
    /\ []( ( /\ call.pc \in { "build", "returned" }
             /\ call.session_needs_recreation /\ call.current_llm # None )
           => ~call.read_later_filter )

\* The moments at which another request can look at the registry: between
\* two calls, and while the call in progress is suspended in the await of
\* the old client's __aexit__ (line 447) or of the new client's __aenter__
\* (lines 598, 697).
ObservableByOthers ==
    \/ CallQuiet
    \/ Suspended
    \/ call.pc = "connect" /\ WantsTools(call.request)

\* C34: a request whose verdict is REUSE never observes a half-built
\* session: whenever another request can look at the registry and the stored
\* configuration of a session equals the requested one (the session not
\* being degraded for want of an LLM), the record holds an executor - also
\* after a rebuild for that configuration raised part-way, and while a
\* rebuild is suspended at a release or connect step.
C34_ReuseSeesCompleteSession ==
    \A sid \in SessionIds, r \in Requests :
        ( /\ ObservableByOthers
          /\ sessions[sid].exists
          /\ ~degraded_by[sid].on
          /\ ~needs_session_recreation(sessions[sid], r.llm_config_id,
                  r.tools_config, r.agent_mode, r.agent_data_source) )
            => sessions[sid].agent_executor # "none"

\* C25: when the connection to the tool servers fails during a rebuild, the
\* rebuild recovers locally: no client handle is stored in the session
\* record, and unless something else raised the record gets a non-null
\* executor.
C25_FailureRecoveredLocally ==
    (call.pc = "returned" /\ call.mcp_client = "failed") =>
        /\ sessions[call.session_id].mcp_client = None
        /\ ~call.raised => sessions[call.session_id].agent_executor # "none"

\* C27: a rebuild in json mode with a data source, for which an LLM was
\* obtained, ends with a non-null executor in the record - the JSON agent,
\* or the plain-generation fallback when the document did not load.
C27_JsonFallsBack ==
    ( /\ call.pc = "returned" /\ call.session_needs_recreation
      /\ call.current_llm # None
      /\ Branch(call.request) = "json" ) =>
        sessions[call.session_id].agent_executor \in { "json", "simple" }

\* ------------------------------------------------------------------------
\* Concurrent streaming calls on the one event loop
\* ------------------------------------------------------------------------

\* The tasks that call astream_ask_agent_events (asyncio.create_task in
\* websocket_chat_stream_handler, or any other caller on the loop).
TaskIds == { 1, 2 }

\* The session ids the calls are made with.
CallSessionIds == { "s1", "s2" }

\* Bound: the fragments one call's executor run produces.
MaxChunks == 2

\* Bound: the calls one task makes, one after the other.
MaxCalls == 2

IdleStreamCall ==
    [ pc |-> "idle", session_id |-> None, accumulated_content |-> << >>,
      calls |-> 0 ]

\* A call is between the start of its reconcile step and its terminal event.
Executing(t) == stream_call[t].pc \in { "reconcile", "stream" }

\* A fragment: the session whose executor produced it, and the call (task
\* and call number) it was produced for.
Fragment(sid, t) ==
    [ session |-> sid, task |-> t, call |-> stream_call[t].calls ]

\* One handler for every call: the events of every call go to the sink of
\* the first task.
SinkOf_first(t) == 1

\* The sink a call's events go to: custom_handler is made from the call's
\* own output_stream_fn and handed over in the config of this call's
\* astream / astream_events (lines 831-834, 850-853).
SinkOf(t) == t

\* The history RunnableWithMessageHistory writes to: the lambda of lines
\* 777-779 looks up self.sessions[sid]["memory_saver"] with the session_id
\* of the call's config.
get_session_history(sid) == sid

\* No client in the record.
NoClient == 0

\* One client object for the whole process.
NewClient_shared(n) == 1

\* MultiServerMCPClient(connections=...) (lines 594, 693): a new object each
\* time, the n+1st after n were constructed.
NewClient(n) == n + 1

ConcInit ==
    /\ stream_call = [ t \in TaskIds |-> IdleStreamCall ]
    /\ call_sink = [ t \in TaskIds |-> << >> ]
    /\ memory_saver = [ sid \in CallSessionIds |-> << >> ]
    /\ installed = [ sid \in CallSessionIds |-> FALSE ]
    /\ mcp_clients = [ sid \in CallSessionIds |-> NoClient ]
    /\ clients_made = 0

\* A task calls astream_ask_agent_events(sid, ...) with a sink of its own;
\* nothing in the service looks at the calls in progress. The call runs to
\* the first await of the reconcile step that suspends.
StreamCallBegin(t, sid) ==
    /\ stream_call[t].pc \in { "idle", "done" }
    /\ stream_call[t].calls < MaxCalls
    /\ stream_call' = [ stream_call EXCEPT ![t] =
           [ pc |-> "reconcile", session_id |-> sid,
             accumulated_content |-> << >>, calls |-> @.calls + 1 ] ]
    /\ call_sink' = [ call_sink EXCEPT ![t] = << >> ]
    /\ UNCHANGED << memory_saver, installed, clientVars >>
    /\ UNCHANGED notConc

\* The reconcile step returns: the record of the call's session holds an
\* executor (installed now or reused). rebuild: the verdict was REBUILD, as
\* it always is for a new session; the record's client is then the one
\* constructed for this rebuild (lines 693-698, 775), or None when no tool
\* is wanted (connects false).
StreamCallReconciled(t, rebuild, connects) ==
    /\ stream_call[t].pc = "reconcile"
    /\ ~installed[stream_call[t].session_id] => rebuild
    /\ connects => rebuild
    /\ installed' = [ installed EXCEPT ![stream_call[t].session_id] = TRUE ]
    /\ stream_call' = [ stream_call EXCEPT ![t].pc = "stream" ]
    /\ mcp_clients' =
           IF ~rebuild THEN mcp_clients
           ELSE [ mcp_clients EXCEPT ![stream_call[t].session_id] =
                    IF connects THEN NewClient(clients_made)
                    ELSE NoClient ]
    /\ clients_made' = IF connects THEN clients_made + 1 ELSE clients_made
    /\ UNCHANGED << call_sink, memory_saver >>
    /\ UNCHANGED notConc

\* One iteration of the delta loop: the executor of the call's session
\* yields a fragment, which is sent as TOKEN and accumulated (lines 867-880);
\* the loop suspends between iterations.
StreamCallChunk(t) ==
    /\ stream_call[t].pc = "stream"
    /\ Len(stream_call[t].accumulated_content) < MaxChunks
    /\ LET frag == Fragment(stream_call[t].session_id, t)
       IN  /\ call_sink' = [ call_sink EXCEPT ![SinkOf(t)] =
                   Append(@, Ev(TOKEN, << frag >>)) ]
           /\ stream_call' = [ stream_call EXCEPT
                   ![t].accumulated_content = Append(@, frag) ]
    /\ UNCHANGED << memory_saver, installed, clientVars >>
    /\ UNCHANGED notConc

\* The executor's run ends: RunnableWithMessageHistory appends the turn to
\* the history of the call's session, then the handler sends CHAIN_END with
\* the accumulation (lines 933-941).
StreamCallFinish(t) ==
    /\ stream_call[t].pc = "stream"
    /\ memory_saver' = [ memory_saver EXCEPT
           ![get_session_history(stream_call[t].session_id)] =
               Append(@, Fragment(stream_call[t].session_id, t)) ]
    /\ call_sink' = [ call_sink EXCEPT ![SinkOf(t)] =
           Append(@, Ev(CHAIN_END, stream_call[t].accumulated_content)) ]
    /\ stream_call' = [ stream_call EXCEPT ![t].pc = "done" ]
    /\ UNCHANGED << installed, clientVars >>
    /\ UNCHANGED notConc

ConcNext ==
    \/ \E t \in TaskIds, sid \in CallSessionIds : StreamCallBegin(t, sid)
    \/ \E t \in TaskIds, rebuild \in BOOLEAN, connects \in BOOLEAN :
           StreamCallReconciled(t, rebuild, connects)
    \/ \E t \in TaskIds : StreamCallChunk(t)
    \/ \E t \in TaskIds : StreamCallFinish(t)

\* ------------------------------------------------------------------------
\* Concurrent streaming calls: claims
\* ------------------------------------------------------------------------

OwnFragments(t, frags) ==
    \A i \in 1..Len(frags) :
        /\ frags[i].task = t
        /\ frags[i].call = stream_call[t].calls
        /\ frags[i].session = stream_call[t].session_id

\* C15: streaming calls that run concurrently on different session ids do
\* not interfere: every event in a call's sink was produced for that call by
\* its own session's executor, the final content is the call's own
\* accumulation, and a session's history holds only that session's turns.
C15_Isolation ==
    /\ \A t \in TaskIds :
           /\ OwnFragments(t, stream_call[t].accumulated_content)
           /\ \A i \in 1..Len(call_sink[t]) :
                  OwnFragments(t, call_sink[t][i].data)
           /\ stream_call[t].pc = "done" =>
                  /\ Len(call_sink[t]) > 0
                  /\ call_sink[t][Len(call_sink[t])] =
                         Ev(CHAIN_END, stream_call[t].accumulated_content)
    /\ \A sid \in CallSessionIds : \A i \in 1..Len(memory_saver[sid]) :
           memory_saver[sid][i].session = sid

\* C15 witness: while one call was streaming on one session, a call on the
\* other session has streamed and finished, and the first has gone on.
C15_Witness ==
    /\ stream_call[1].pc = "stream" /\ stream_call[2].pc = "done"
    /\ stream_call[1].session_id # stream_call[2].session_id
    /\ Len(call_sink[1]) = 2 /\ Len(call_sink[2]) = 3
    /\ memory_saver[stream_call[2].session_id] # << >>
    /\ memory_saver[stream_call[1].session_id] # << >>

\* C24: at every moment no client handle is in the records of two session
\* ids, and the handle a rebuild puts into a record is a client constructed
\* in that rebuild, never one that existed before.
C24_HandleOwnedByOneSession ==
    /\ [](\A s1, s2 \in CallSessionIds :
             (s1 # s2 /\ mcp_clients[s1] # NoClient) =>
                 mcp_clients[s1] # mcp_clients[s2])
    /\ [][ \A sid \in CallSessionIds :
              (mcp_clients'[sid] # mcp_clients[sid]
                   /\ mcp_clients'[sid] # NoClient) =>
                  /\ mcp_clients'[sid] > clients_made
                  /\ clients_made' = clients_made + 1 ]_vars

\* C24 witness: the records of both sessions hold a client, and one of them
\* has been rebuilt a second time.
C24_Witness ==
    /\ mcp_clients["s1"] # NoClient /\ mcp_clients["s2"] # NoClient
    /\ clients_made >= 3

\* ------------------------------------------------------------------------
\* Tool resolution and executor factory
\* ------------------------------------------------------------------------

\* The tools the configured tool servers offer, as (server, tool) pairs.
ToolPairs == { << "srvA", "t1" >>, << "srvA", "t2" >>, << "srvB", "t1" >> }

\* The enabled-tool mappings a filter can be.
FilterMaps == SUBSET ToolPairs

\* The agent_mode values of a request; "chat" is what the websocket handler
\* passes when the client names none.
BuildModes == { None, "chat", "react", "json" }

\* The requests a pass is made for.
BuildRequests ==
    { r \in [ llm_config_id : { None },
              tools_config : { TcNone } \cup
                  { [ has_enabled_tools |-> TRUE, enabled_tools |-> m ] :
                      m \in FilterMaps },
              agent_mode : BuildModes,
              agent_data_source : DataSources ] :
        r.agent_data_source # None => r.agent_mode = "json" }

\* list(effective_tools_config_to_use.keys())
required_server_names(f) == { p[1] : p \in f }

\* The flat list of tool names taken from every server's list.
tool_names_to_enable(f) == { p[2] : p \in f }

\* client.get_tools() of a client connected to the servers named in f.
get_tools(f) == { p \in ToolPairs : p[1] \in required_server_names(f) }

\* MCPServerToolFactory.create_tools: every tool of the client whose name is
\* in the list, all of them when the list is empty.
create_tools(client_tools, names) ==
    IF names = { } THEN client_tools
    ELSE { p \in client_tools : p[2] \in names }

\* tools.py load_tools_from_client: nothing without filters, otherwise the
\* tools whose server is a key of the filters and whose name is in that
\* server's list.
load_tools_from_client(client_tools, filters) ==
    IF filters = { } THEN { }
    ELSE { p \in client_tools : p \in filters }

\* agent_factory.py create_agent_for_mode: the JSON agent, the ReAct agent
\* when there are tools, None otherwise.
create_agent_for_mode(mode, data, ok, tools) ==
    IF mode = "json" /\ data # None THEN (IF ok THEN "json" ELSE "none")
    ELSE IF mode = "react" /\ tools # { } THEN "react"
    ELSE "none"

\* No pass in progress.
IdleBuild ==
    [ pc |-> "idle", request |-> NoRequest, effective |-> EmptyMap,
      mcp_client |-> None, agent_tools |-> { }, executor |-> "none" ]

\* A pass is made for any request under any global filter (the one
\* update_globally_active_tools was last given), by the service's inline
\* code (impl "svc") or by the functions of services/agent ("pkg").
BuildInit ==
    /\ globally_active_tools \in FilterMaps
    /\ \E r \in BuildRequests :
           build = [ IdleBuild EXCEPT !.pc = "resolve", !.request = r ]

\* The filter the tools are resolved for. Service: lines 548 and 655-663.
\* services/agent has no such step: get_tools_for_config is handed the
\* request's own enabled_tools.
ResolveTools ==
    /\ build.pc = "resolve"
    /\ build' = [ build EXCEPT
                    !.pc = "connect",
                    !.effective =
                        IF impl = "svc" THEN EffectiveTools(build.request)
                        ELSE GetEnabledTools(build.request.tools_config) ]
    /\ UNCHANGED notBuild

\* The client is made and entered, and the tools are listed. Service: the
\* local mcp_client keeps the client when __aenter__ raises.
\* get_tools_for_config: create_mcp_client returns None then.
BuildConnect(outcome) ==
    /\ build.pc = "connect"
    /\ (Branch(build.request) = "json" \/ build.effective = EmptyMap)
           => outcome = "none"
    /\ build' = [ build EXCEPT
                    !.pc = "build",
                    !.mcp_client =
                        IF outcome = "open" THEN "open"
                        ELSE IF outcome = "failed" /\ impl = "svc"
                             THEN "failed"
                        ELSE None,
                    !.agent_tools =
                        IF outcome # "open" THEN { }
                        ELSE IF impl = "svc"
                        THEN create_tools(get_tools(build.effective),
                                 tool_names_to_enable(build.effective))
                        ELSE load_tools_from_client(
                                 get_tools(build.effective),
                                 build.effective) ]
    /\ UNCHANGED notBuild

\* The executor is made for the mode and the tools resolved.
BuildAgent(ok) ==
    /\ build.pc = "build"
    /\ build' = [ build EXCEPT
                    !.pc = "built",
                    !.executor =
                        IF impl = "svc"
                        THEN RawExecutor(build.request, build.mcp_client,
                                 ok, build.agent_tools # { })
                        ELSE create_agent_for_mode(
                                 build.request.agent_mode,
                                 build.request.agent_data_source,
                                 ok, build.agent_tools) ]
    /\ UNCHANGED notBuild

BuildNext ==
    \/ ResolveTools
    \/ \E outcome \in { "none", "failed", "open" } : BuildConnect(outcome)
    \/ \E ok \in BOOLEAN : BuildAgent(ok)

\* ------------------------------------------------------------------------
\* Tool resolution and executor factory: claims
\* ------------------------------------------------------------------------

\* C26: in the default branch (mode unset or "chat") the executor made is
\* the plain-generation one when no tool was resolved - also when that is
\* because the connection failed - and the tool-using one (unless fetching
\* its prompt raised) when there are tools.
C26_PlainWhenNoTools ==
    (build.pc = "built" /\ Branch(build.request) = "default") =>
        IF build.agent_tools = { }
        THEN build.executor = "simple"
        ELSE build.executor \in { "tools", "raise" }

\* The request carries a non-empty filter of its own.
RequestFilterSet(r) == GetEnabledTools(r.tools_config) # EmptyMap

\* The filter has been resolved in a mode that resolves tools.
Resolved ==
    build.pc \in { "connect", "build", "built" }
    /\ Branch(build.request) \in { "react", "default" }

\* C28: with a global filter and a non-empty request filter the effective
\* filter is their intersection: a server absent from the global filter is
\* dropped, and of a server in both only the tools enabled on both sides
\* stay.
C28_EffectiveIsIntersection ==
    ( Resolved /\ globally_active_tools # EmptyMap
      /\ RequestFilterSet(build.request) ) =>
        build.effective =
            GetEnabledTools(build.request.tools_config)
                \cap globally_active_tools

\* C29: with the request filter empty or unset and a global filter set, the
\* effective filter is the global filter as it is, in the react and in the
\* default mode.
C29_EmptyRequestTakesGlobal ==
    ( Resolved /\ globally_active_tools # EmptyMap
      /\ ~RequestFilterSet(build.request) ) =>
        build.effective = globally_active_tools

\* C30: with the global filter {srvA: [t1]} and the request filter {} the
\* effective filter is {} and the executor is made with no tools.
C30_EmptyRequestNoTools ==
    ( Resolved /\ globally_active_tools = MapA
      /\ build.request.tools_config = TcEmpty ) =>
        /\ build.effective = EmptyMap
        /\ build.agent_tools = { }

\* C37: no tool outside the effective filter is bound to an executor: after
\* the tools were resolved, every bound tool comes from a server named in
\* the effective filter and its name is in that server's enabled list.
C37_BoundToolsWithinFilter ==
    build.pc \in { "build", "built" } =>
        build.agent_tools \subseteq build.effective

\* ------------------------------------------------------------------------
\* Tool clients over rebuilds and shutdown
\* ------------------------------------------------------------------------

CloseSessionIds == { "s1", "s2" }

\* Bound: the MultiServerMCPClient objects constructed in one run.
MaxClients == 3

\* Bound: the calls of __aexit__ made on one client object.
MaxExitCalls == 2

\* A client object as constructed: __aenter__ has succeeded or raised.
ClientObject(entered) ==
    [ opened |-> entered, exit_calls |-> 0, exits_returned |-> 0,
      closed |-> FALSE, explicitly_closed_in_recreation |-> FALSE ]

\* "await c.__aexit__(None, None, None)" followed by the setattr of a mark,
\* inside try/except: err says that __aexit__ raised, which is logged and
\* leaves the mark unset.
AExit(cs, c, err, by_rebuild) ==
    [ cs EXCEPT
        ![c].exit_calls = @ + 1,
        ![c].exits_returned = IF err THEN @ ELSE @ + 1,
        ![c].explicitly_closed_in_recreation = @ \/ (by_rebuild /\ ~err),
        ![c].closed = @ \/ (~by_rebuild /\ ~err) ]

\* The test of close_mcp_clients on a record's client (lines 1075-1078).
ToClose(c) ==
    /\ c # 0
    /\ ~clients[c].closed
    /\ ~clients[c].explicitly_closed_in_recreation

CloseInit ==
    /\ client_of = [ sid \in CloseSessionIds |-> 0 ]
    /\ clients = << >>

\* A rebuild of the session's record (lines 439-472, 594-599, 693-698, 775):
\* __aexit__ of the record's client, if there is one, whatever marks it
\* carries; the record's client set to None; then no client (outcome
\* "none"), or a new one that is stored whether __aenter__ returned ("open")
\* or raised ("failed").
Rebuild(sid, err, outcome) ==
    /\ outcome # "none" => Len(clients) < MaxClients
    /\ err => client_of[sid] # 0
    /\ client_of[sid] # 0 => clients[client_of[sid]].exit_calls < MaxExitCalls
    /\ LET old == client_of[sid]
           released == IF old = 0 THEN clients
                       ELSE AExit(clients, old, err, TRUE)
       IN  IF outcome = "none"
           THEN /\ clients' = released
                /\ client_of' = [ client_of EXCEPT ![sid] = 0 ]
           ELSE /\ clients' = Append(released, ClientObject(outcome = "open"))
                /\ client_of' = [ client_of EXCEPT ![sid] = Len(clients) + 1 ]
    /\ UNCHANGED notClose

\* The clients close_mcp_clients visits, session by session: the ones that
\* pass the test; errs: the sessions whose __aexit__ raises.
RECURSIVE CloseAll(_, _, _)
CloseAll(cs, sids, errs) ==
    IF sids = { } THEN cs
    ELSE LET sid == CHOOSE s \in sids : TRUE
             c == client_of[sid]
         IN  CloseAll(IF ToClose(c) THEN AExit(cs, c, sid \in errs, FALSE)
                                    ELSE cs,
                      sids \ { sid }, errs)

\* close_mcp_clients (lines 1071-1090): every record is visited; the records
\* keep their clients.
close_mcp_clients(errs) ==
    /\ \A sid \in errs : ToClose(client_of[sid])
    /\ \A sid \in CloseSessionIds :
           ToClose(client_of[sid]) =>
               clients[client_of[sid]].exit_calls < MaxExitCalls
    /\ clients' = CloseAll(clients, CloseSessionIds, errs)
    /\ UNCHANGED client_of
    /\ UNCHANGED notClose

CloseNext ==
    \/ \E sid \in CloseSessionIds, err \in BOOLEAN,
          outcome \in { "none", "failed", "open" } : Rebuild(sid, err, outcome)
    \/ \E errs \in SUBSET CloseSessionIds : close_mcp_clients(errs)

\* The client objects that are in no session record.
Unreferenced ==
    { c \in 1..Len(clients) : \A sid \in CloseSessionIds : client_of[sid] # c }

\* An opened client has at most one __aexit__ that returned, and has had a
\* call of __aexit__ when no record holds it any more.
ReleasedOnce(c) ==
    clients[c].opened =>
        /\ clients[c].exits_returned <= 1
        /\ c \in Unreferenced => clients[c].exit_calls >= 1

\* C38: across rebuilds and close_mcp_clients calls every client that was
\* opened is successfully released at most once and is never taken out of
\* its session record without a release attempt; close_mcp_clients skips the
\* clients a rebuild or an earlier close_mcp_clients has released, and every
\* other client in a record gets its release attempt, whatever error the
\* release of another session's client raises.
C38_ReleasedAtMostOnce ==
    /\ [](\A c \in 1..Len(clients) : ReleasedOnce(c))
    /\ [][ \A errs \in SUBSET CloseSessionIds :
             close_mcp_clients(errs) =>
                 \A sid \in CloseSessionIds :
                     LET c == client_of[sid]
                     IN  c # 0 =>
                           clients'[c].exit_calls =
                               clients[c].exit_calls +
                                  (IF clients[c].closed
                                      \/ clients[c].explicitly_closed_in_recreation
                                   THEN 0 ELSE 1) ]_vars

\* ------------------------------------------------------------------------
\* LLM configurations of the ConfigManager
\* ------------------------------------------------------------------------

CfgIds == { "A", "B", "C" }

LLMConfig(id, flag) == [ config_id |-> id, is_default |-> flag ]

\* The keys of the dict.
ConfigIds(cfgs) == { cfgs[i].config_id : i \in 1..Len(cfgs) }

\* self._llm_configs.get(id) is not None
Position(cfgs, id) == CHOOSE i \in 1..Len(cfgs) : cfgs[i].config_id = id

\* next((id for cfg in configs.values() if cfg.is_default and id != but),
\*      None), then the first key when there is none and the dict is not
\* empty.
NewDefault(cfgs, but) ==
    LET flagged == { i \in 1..Len(cfgs) :
                       cfgs[i].is_default /\ cfgs[i].config_id # but }
    IN  IF flagged # { }
        THEN cfgs[CHOOSE i \in flagged : \A j \in flagged : i <= j].config_id
        ELSE IF cfgs # << >> THEN cfgs[1].config_id ELSE None

\* "if self._llm_configs[new_default]: ... .is_default = True"
FlagSet(cfgs, id) ==
    [ i \in 1..Len(cfgs) |->
        IF cfgs[i].config_id = id THEN LLMConfig(id, TRUE) ELSE cfgs[i] ]

\* The loop that clears the flag of every config but one.
FlagsCleared(cfgs, but) ==
    [ i \in 1..Len(cfgs) |->
        IF cfgs[i].config_id # but THEN LLMConfig(cfgs[i].config_id, FALSE)
        ELSE cfgs[i] ]

\* get_default_llm_config (lines 174-181): the config the pointer names (None
\* when there is no such config), without a pointer the first config.
get_default_llm_config ==
    IF default_llm_id # None
    THEN (IF default_llm_id \in ConfigIds(stored_llm_configs)
          THEN default_llm_id ELSE None)
    ELSE IF stored_llm_configs # << >> THEN stored_llm_configs[1].config_id
    ELSE None

\* The configurations a file can hold: distinct ids in any order, any flags.
LoadableConfigs ==
    { cfgs \in UNION { [ 1..n -> [ config_id : CfgIds, is_default : BOOLEAN ] ] :
                          n \in 0..Cardinality(CfgIds) } :
        \A i, j \in 1..Len(cfgs) :
            i # j => cfgs[i].config_id # cfgs[j].config_id }

\* _load_llm_configs (lines 75-150): the last config flagged in the file is
\* the default; without a flagged one the first key is, its flag staying
\* False.
LoadedDefault(cfgs) ==
    LET flagged == { i \in 1..Len(cfgs) : cfgs[i].is_default }
    IN  IF flagged # { }
        THEN cfgs[CHOOSE i \in flagged : \A j \in flagged : j <= i].config_id
        ELSE IF cfgs # << >> THEN cfgs[1].config_id ELSE None

\* A manager that has loaded nothing.
NoConfigs ==
    /\ stored_llm_configs = << >>
    /\ default_llm_id = None

CfgInit ==
    /\ stored_llm_configs \in LoadableConfigs
    /\ default_llm_id = LoadedDefault(stored_llm_configs)

\* add_llm_config (lines 199-216).
AddLlmConfig(id, flag) ==
    /\ id \notin ConfigIds(stored_llm_configs)
    /\ stored_llm_configs' =
           Append(IF flag THEN FlagsCleared(stored_llm_configs, id)
                          ELSE stored_llm_configs,
                  LLMConfig(id, flag))
    /\ default_llm_id' = IF flag THEN id ELSE default_llm_id
    /\ UNCHANGED notCfg

\* update_llm_config (lines 218-265); flag: is_default of the updated
\* config (the payload's value, or the existing one when it has none).
UpdateLlmConfig(id, flag) ==
    /\ id \in ConfigIds(stored_llm_configs)
    /\ LET pos == Position(stored_llm_configs, id)
           takes == flag /\ default_llm_id # id
           gives == ~flag /\ default_llm_id = id
           new_default == NewDefault(stored_llm_configs, id)
           before_store ==
               IF takes THEN FlagsCleared(stored_llm_configs, id)
               ELSE IF gives /\ new_default # None
                    THEN FlagSet(stored_llm_configs, new_default)
               ELSE stored_llm_configs
       IN  /\ stored_llm_configs' =
                  [ before_store EXCEPT ![pos] = LLMConfig(id, flag) ]
           /\ default_llm_id' =
                  IF takes THEN id
                  ELSE IF gives THEN new_default
                  ELSE default_llm_id
    /\ UNCHANGED notCfg

\* delete_llm_config (lines 267-292): the pointer is looked after only when
\* the deleted config carried the is_default flag.
DeleteLlmConfig(id) ==
    /\ id \in ConfigIds(stored_llm_configs)
    /\ LET pos == Position(stored_llm_configs, id)
           was_default == stored_llm_configs[pos].is_default
           rest == SelectSeq(stored_llm_configs,
                             LAMBDA cfg : cfg.config_id # id)
           new_default == NewDefault(rest, None)
       IN  /\ stored_llm_configs' =
                  IF was_default /\ new_default # None
                  THEN FlagSet(rest, new_default) ELSE rest
           /\ default_llm_id' =
                  IF was_default THEN new_default ELSE default_llm_id
    /\ UNCHANGED notCfg

CfgNext ==
    \/ \E id \in CfgIds, flag \in BOOLEAN : AddLlmConfig(id, flag)
    \/ \E id \in CfgIds, flag \in BOOLEAN : UpdateLlmConfig(id, flag)
    \/ \E id \in CfgIds : DeleteLlmConfig(id)

\* C40: after any sequence of add_llm_config, update_llm_config and
\* delete_llm_config, get_default_llm_config returns an existing
\* configuration whenever at least one exists - the default pointer never
\* names a deleted configuration - and None only when none exists.
C40_DefaultExists ==
    /\ default_llm_id \in ConfigIds(stored_llm_configs) \cup { None }
    /\ stored_llm_configs # << >> =>
           get_default_llm_config \in ConfigIds(stored_llm_configs)
    /\ stored_llm_configs = << >> => get_default_llm_config = None

\* The configuration file read at start-up names a default LLM.
DefaultConfigured == llm_configs = { DefaultLlmId }

\* The state after construction: a LangchainAgentService, and for the
\* dispatcher and the streaming handler one of their two implementations.
InitStream == StreamInit /\ HandlerInit /\ DispInit /\ dvariant = "svc"
              /\ SessInit /\ DefaultConfigured /\ ConcInit /\ build = IdleBuild
              /\ CloseInit /\ NoConfigs

InitDisp == StreamInit /\ HandlerInit /\ impl = "svc" /\ DispInit
            /\ SessInit /\ ConcInit /\ build = IdleBuild
            /\ CloseInit /\ NoConfigs

InitSess == StreamInit /\ HandlerInit /\ impl = "svc" /\ DispInit
            /\ dvariant = "svc" /\ SessInit /\ DefaultConfigured /\ ConcInit /\ build = IdleBuild
            /\ CloseInit /\ NoConfigs

InitConc == StreamInit /\ HandlerInit /\ impl = "svc" /\ DispInit
            /\ dvariant = "svc" /\ SessInit /\ DefaultConfigured /\ ConcInit /\ build = IdleBuild
            /\ CloseInit /\ NoConfigs

InitBuild == StreamInit /\ HandlerInit /\ DispInit /\ dvariant = "svc"
             /\ sessions = [ sid \in SessionIds |-> NoSession ]
             /\ DefaultConfigured /\ nextHistory = 1 /\ call = IdleCall
             /\ degraded_by = [ sid \in SessionIds |-> NotDegraded ]
             /\ ConcInit /\ BuildInit /\ CloseInit /\ NoConfigs

InitClose == StreamInit /\ HandlerInit /\ impl = "svc" /\ DispInit
             /\ dvariant = "svc" /\ SessInit /\ DefaultConfigured
             /\ ConcInit /\ build = IdleBuild /\ CloseInit /\ NoConfigs

InitCfg == StreamInit /\ HandlerInit /\ impl = "svc" /\ DispInit
           /\ dvariant = "svc" /\ SessInit /\ DefaultConfigured
           /\ ConcInit /\ build = IdleBuild /\ CloseInit /\ CfgInit

SpecStream == InitStream /\ [][StreamNext]_vars

SpecDisp == InitDisp /\ [][DispNext]_vars

SpecSess == InitSess /\ [][SessNext]_vars

SpecConc == InitConc /\ [][ConcNext]_vars

SpecBuild == InitBuild /\ [][BuildNext]_vars

SpecUpdate == InitSess /\ [][UpdateNext]_vars

SpecClose == InitClose /\ [][CloseNext]_vars

SpecCfg == InitCfg /\ [][CfgNext]_vars

\* The event loop runs every task that is ready, and the timeouts pass.
SpecHandler == InitStream /\ [][HandlerNext]_vars /\ WF_vars(HandlerNext)
====
